---- MODULE Spec2Model ----
(***************************************************************************)
(* Model of steam_client_achievements.py: the SteamAchievementManager      *)
(* session (open, stats handshake, writes, cleanup) and the batch loop     *)
(* process_all_games that drives one session per game; and of main.py:     *)
(* the inventory fetch and the schema reader.                              *)
(*                                                                         *)
(* The specifications share the manager's steps:                          *)
(*   Spec     process_all_games over an inventory of games;                *)
(*   LiveSpec Spec with its steps weakly fair;                             *)
(*   IntSpec  Spec with a KeyboardInterrupt during the handshake;          *)
(*   ApiSpec  a caller that invokes the manager's public methods in any    *)
(*            order on one manager object;                                 *)
(*   ApiLiveSpec  ApiSpec with its steps weakly fair;                      *)
(*   OpenSpec a caller that constructs and closes one manager after        *)
(*            another, on a machine with any of the candidate libraries;   *)
(*   FetchSpec  the concurrent inventory fetch of main.py: one             *)
(*            process_single_game call per owned game in a thread pool,    *)
(*            and the main thread that counts them and writes checkpoints; *)
(*   ProbeSpec  a caller of SteamSchemaReader.is_achievement_protected on  *)
(*            a machine with any schema files.                             *)
(* Pointers and handles are modelled by whether they are non-null, the     *)
(* app id of game number n by n, an achievement's apiname by its position  *)
(* in the game's list.                                                     *)
(***************************************************************************)
EXTENDS Integers, Sequences, FiniteSets

VARIABLES
  \* the process and the class-level caches
  env,                  \* os.environ["SteamAppId"]: 0 when unset, else the app id
  cached_dll_path,      \* SteamAchievementManager._cached_dll_path
  cached_steam_path,    \* SteamAchievementManager._cached_steam_path is set
  dllDirectory,         \* last argument of SetDllDirectoryW
  \* the machine the program runs on
  files,                \* the candidate paths that exist
  frozen,               \* sys.frozen (PyInstaller bundle)
  registry,             \* the install-path lookup can succeed
  readyAfter,           \* RunCallbacks polls after which the client has the stats
  \* the manager object
  steamclient, steam_client, steam_pipe, steam_user, user_stats,
  user_stats_received,
  api,                  \* the flat functions bound by _setup_steam_api_functions
  vtable,               \* the vtables bound: "client", "userstats"
  \* locals of _initialize_steam
  dll_path, scanPos,
  tried,                \* the candidates the scan passed to CDLL, in order
  \* locals of process_all_games
  pc, ret, arg,
  nGames, i, achievements, k,
  total_achievements_unlocked, successful_games, failed_games,
  manager,
  \* history of the current session, kept for the properties
  life,                 \* "none", "opening" (from __init__ on), "closed"
  live,                 \* sessions whose open began and whose cleanup has not returned
  requested,            \* a RequestUserStats call returned a valid result
  statsArrived,         \* the runtime has the user's stats (never read by the code)
  waited, pumps,        \* ms waited by the handshake, RunCallbacks calls made
  ops,                  \* native calls made for the current target
  writes,               \* native set/clear calls of the session, in order
  unlockCalls,          \* arguments of the unlock_achievement calls, in order
  last,                 \* the last manager method called
  ua,                   \* the current unlock_achievement call
  acquired, released,   \* native resources the session took and gave back
  cleanups,             \* cleanup() calls made for the current target
  nCalls,               \* method calls made by the ApiSpec caller
  tally,                \* what the run did so far, kept for the properties
  \* main.py: the concurrent inventory fetch
  lock,                 \* threading.Lock() is held
  games_with_achievements,   \* the shared results list: the games appended
  wpc,                  \* position of each process_single_game call
  found,                \* the games whose fetch showed a locked achievement
  mpc,                  \* position of the main thread
  completed_count, last_percentage,
  ckptLen,              \* len(games_with_achievements) as a save evaluated it
  data_json,            \* the last data.json written
  response,             \* what get_player_achievements answers for each game
  \* main.py: the SteamSchemaReader
  steam_path,           \* SteamSchemaReader.steam_path is not None
  schema_file,          \* the UserGameStatsSchema_<app>.bin file of each app
  schema_cache,         \* SteamSchemaReader.schema_cache
  probe                 \* the last is_achievement_protected call and its result

readerVars  == <<steam_path, schema_file, schema_cache, probe>>
machineVars == <<files, frozen, registry, readyAfter, nGames, response,
                 readerVars>>
globalVars  == <<env, cached_dll_path, cached_steam_path, dllDirectory>>
mgrVars     == <<steamclient, steam_client, steam_pipe, steam_user, user_stats,
                 user_stats_received, api, vtable>>
initLocals  == <<dll_path, scanPos, tried>>
counters    == <<total_achievements_unlocked, successful_games, failed_games>>
loopVars    == <<i, achievements, k, manager>>
handshake   == <<requested, statsArrived, waited, pumps>>
history     == <<life, live, ops, writes, unlockCalls, last, ua, acquired,
                 released, cleanups>>
fetchVars   == <<lock, games_with_achievements, wpc, found, mpc,
                 completed_count, last_percentage, ckptLen, data_json>>
batchVars == <<machineVars, globalVars, mgrVars, initLocals, counters, loopVars,
               handshake, history, pc, ret, arg, nCalls, tally>>
vars == <<fetchVars, batchVars>>

-----------------------------------------------------------------------------
(* Bounds of the model *)
MaxGames == 2       \* games in data.json
MaxAch   == 2       \* achievements per game
MaxCalls == 3       \* method calls of the ApiSpec caller
MaxOpens == 2       \* managers constructed by the OpenSpec caller
MaxFetch == 3       \* owned games whose achievements main.py fetches
MaxData == 2        \* words in a schema file
TailLen == 1        \* words at the end of a file that _read_kv_file does not
                    \* scan (20 bytes at line 151 of main.py, scaled to MaxData)
CheckpointEvery == 2    \* completed fetches between two checkpoints (100 at
                        \* line 561 of main.py, scaled to MaxFetch)

\* the word 01 00 00 00 read as a little-endian integer (line 153 of main.py)
Marker == 1

(* Program constants, in milliseconds *)
TimeoutMs  == 3000
PollMs     == 50
SettleMs   == 1500
CooldownMs == 1000

(* Program constants of main.py: the progress line is printed at every      *)
(* multiple of 5 percent, else at every 10th game                           *)
ProgressPct   == 5
ProgressEvery == 10

-----------------------------------------------------------------------------
(* The inventory *)
\* "protected" is read for locked achievements only (lines 606-611 iterate
\* locked_achievements), so an achieved entry is drawn with one value of it
AchRec   == {r \in [achieved : {0, 1}, protected : BOOLEAN] :
               r.achieved = 1 => ~r.protected}
AchLists == UNION {[1..n -> AchRec] : n \in 0..MaxAch}

\* the positions of s, from n on, whose element is in keep (a list comprehension)
RECURSIVE FilterIdx(_, _, _)
FilterIdx(s, n, keep) ==
  IF n > Len(s) THEN <<>>
  ELSE (IF s[n] \in keep THEN <<n>> ELSE <<>>) \o FilterIdx(s, n + 1, keep)

IsLocked(a)    == a.achieved = 0          \* ach["achieved"] == 0
IsProtected(a) == a.protected             \* ach.get("protected", False)

locked_achievements(achs) ==
  FilterIdx(achs, 1, {a \in AchRec : IsLocked(a)})
\* the filter without its test of "protected", and without its test of "achieved"
UnlockableIgnoringProtected(achs) == locked_achievements(achs)
UnlockableIgnoringAchieved(achs) ==
  FilterIdx(achs, 1, {a \in AchRec : ~IsProtected(a)})
unlockable_achievements(achs) ==
  FilterIdx(achs, 1, {a \in AchRec : IsLocked(a) /\ ~IsProtected(a)})
protected_achievements(achs) ==
  FilterIdx(achs, 1, {a \in AchRec : IsLocked(a) /\ IsProtected(a)})

-----------------------------------------------------------------------------
(* The candidate library paths *)
Path(d, s, n) == [dir |-> d, sub |-> s, name |-> n]
NoPath == Path("none", ".", "none")
NoDir  == [dir |-> "none", sub |-> "."]

FlatTriple(d) == << Path(d, "DLLs/win64", "steam_api64.dll"),
                    Path(d, "DLLs", "steam_api64.dll"),
                    Path(d, ".", "steam_api64.dll") >>

\* the list with the installation directory ranked first
dll_paths_InstallFirst ==
  << Path("steam", ".", "steamclient64.dll"),
     Path("steam", ".", "steamclient.dll") >>
    \o FlatTriple("cwd")
    \o (IF frozen THEN FlatTriple("bundle") \o FlatTriple("exe") ELSE <<>>)
    \o FlatTriple("script")

\* lines 109-163
dll_paths ==
  FlatTriple("cwd")
    \o (IF frozen THEN FlatTriple("bundle") \o FlatTriple("exe") ELSE <<>>)
    \o FlatTriple("script")
    \o << Path("steam", ".", "steamclient64.dll"),
          Path("steam", ".", "steamclient.dll") >>

IsFlatPath(p) == p.name = "steam_api64.dll"      \* "steam_api64.dll" in dll_path
HasDLLs(p)    == p.sub # "."                     \* "DLLs" in dll_path

\* the argument of SetDllDirectoryW before a load of p
SearchDir(p) ==
  IF HasDLLs(p) THEN [dir |-> p.dir, sub |-> p.sub]
  ELSE [dir |-> "steam", sub |-> "."]

\* the files the open specification lets exist
OpenFiles == {Path("cwd", "DLLs/win64", "steam_api64.dll"),
              Path("cwd", ".", "steam_api64.dll"),
              Path("exe", "DLLs", "steam_api64.dll"),
              Path("script", "DLLs/win64", "steam_api64.dll"),
              Path("steam", ".", "steamclient64.dll"),
              Path("steam", ".", "steamclient.dll")}

\* the files the batch specification lets exist
BatchFiles == {Path("cwd", "DLLs/win64", "steam_api64.dll"),
               Path("steam", ".", "steamclient64.dll")}

-----------------------------------------------------------------------------
(* The flat exports a library may offer to _setup_steam_api_functions *)
FlatExports == {"request", "set", "clear", "store", "run_callbacks", "shutdown"}
ExportSets  == {FlatExports} \cup {FlatExports \ {e} : e \in FlatExports}

\* polls of RunCallbacks until the Steam client has the user's stats: the
\* first, the last before the deadline, or none within the deadline
NeverReady == (TimeoutMs \div PollMs) + 1
ReadyPolls == {1, (TimeoutMs \div PollMs) - 1, NeverReady}

\* data.json before the fetch wrote it
NoFile == [total |-> -1, games |-> <<>>]

NoCall == [method |-> "none", pre |-> "Uninitialized", rcv |-> FALSE,
           native |-> {}, result |-> "none"]
NoUnlock == [ach |-> 0, set |-> "none", store |-> "none"]

\* the SessionState of the spec, read off the manager object
SessionState ==
  CASE life = "none"   -> "Uninitialized"
    [] life = "closed" -> "Closed"
    [] user_stats_received -> "StatsReady"
    [] requested       -> "StatsRequested"
    [] user_stats      -> "InterfaceBound"
    [] steamclient     -> "LibraryBound"
    [] OTHER           -> "Uninitialized"

Call(m) == [method |-> m, pre |-> SessionState, rcv |-> user_stats_received,
            native |-> {}, result |-> "none"]

BoolStr(b) == IF b THEN "true" ELSE "false"

\* the counters as lines 674-677 print them
SummaryWithoutFailed(s, f, t) ==
  [processed |-> s, successful |-> s, failed |-> f, unlocked |-> t]
SummaryLines(s, f, t) ==
  [processed |-> s + f, successful |-> s, failed |-> f, unlocked |-> t]

\* tally: sessions constructed, games skipped, unlock_achievement calls that
\* returned true, the counters when the current game began, ms slept since
\* the last cleanup() (-1 before the first), and the summary once printed
NoTally == [attempted |-> 0, skipped |-> 0, applied |-> 0,
            before |-> [successful |-> 0, failed |-> 0, unlocked |-> 0],
            slept |-> -1, reported |-> [processed |-> -1]]

-----------------------------------------------------------------------------
FreshManager ==
  /\ steamclient = FALSE /\ steam_client = FALSE /\ steam_pipe = FALSE
  /\ steam_user = FALSE /\ user_stats = FALSE /\ user_stats_received = FALSE
  /\ api = {} /\ vtable = {}
  /\ dll_path = NoPath /\ scanPos = 0 /\ tried = <<>>

FreshHistory ==
  /\ life = "none" /\ requested = FALSE /\ statsArrived = FALSE
  /\ waited = 0 /\ pumps = 0 /\ ops = {} /\ writes = <<>>
  /\ unlockCalls = <<>> /\ last = NoCall /\ ua = NoUnlock
  /\ acquired = {} /\ released = {} /\ cleanups = 0

\* a manager object as __init__ leaves it (lines 29-35)
ResetManager ==
  /\ steamclient' = FALSE /\ steam_client' = FALSE /\ steam_pipe' = FALSE
  /\ steam_user' = FALSE /\ user_stats' = FALSE /\ user_stats_received' = FALSE
  /\ api' = {} /\ vtable' = {}
  /\ dll_path' = NoPath /\ scanPos' = 0 /\ tried' = <<>>

ResetHistory ==
  /\ life' = "none" /\ requested' = FALSE /\ statsArrived' = FALSE
  /\ waited' = 0 /\ pumps' = 0 /\ ops' = {} /\ writes' = <<>>
  /\ unlockCalls' = <<>> /\ last' = NoCall /\ ua' = NoUnlock
  /\ acquired' = {} /\ released' = {} /\ cleanups' = 0

InitCommon ==
  /\ env = 0 /\ cached_dll_path = NoPath /\ cached_steam_path = FALSE
  /\ dllDirectory = NoDir
  /\ registry \in BOOLEAN
  /\ FreshManager /\ FreshHistory
  /\ live = {}
  /\ ret = FALSE /\ arg = 0 /\ k = 0 /\ manager = FALSE
  /\ total_achievements_unlocked = 0 /\ successful_games = 0 /\ failed_games = 0
  /\ achievements = <<>>
  /\ nCalls = 0
  /\ tally = NoTally

\* no is_achievement_protected call was made
NoProbe == [app |-> 0, ach |-> 0, branch |-> "none", result |-> "none"]

\* no SteamSchemaReader exists
ReaderIdle ==
  /\ steam_path = FALSE /\ schema_file = <<>> /\ schema_cache = <<>>
  /\ probe = NoProbe

\* the thread pool of main.py is not running
PoolIdle ==
  /\ lock = FALSE /\ games_with_achievements = <<>>
  /\ wpc = <<>> /\ found = {} /\ mpc = "none"
  /\ completed_count = 0 /\ last_percentage = -1
  /\ ckptLen = 0 /\ data_json = NoFile
  /\ response = <<>>

\* the fetch of main.py is not running
FetchIdle == PoolIdle /\ ReaderIdle

\* The code never reads whether the stats arrived (request_user_stats has no
\* such test), so the batch behaves alike against a client that answers and
\* one that does not; the batch is run against the one that does not.
Init ==
  /\ InitCommon /\ FetchIdle
  /\ files \in SUBSET BatchFiles
  /\ frozen = FALSE
  /\ readyAfter = NeverReady
  /\ nGames \in 0..MaxGames
  /\ i = 0
  /\ pc = "loop"

-----------------------------------------------------------------------------
(* SteamAchievementManager.__init__ and _initialize_steam, step by step.   *)
(* The steps end in pc = "ctor_ok" (the constructor returned) or           *)
(* pc = "ctor_raised" (it raised, after its own cleanup()).                *)

Native(op) == /\ ops' = ops \cup {op}
              /\ last' = [last EXCEPT !.native = @ \cup {op}]

\* a step of _initialize_steam that made the native calls in made and ended as
\* how says: "none" (it went on), "failed" (an Exception that reaches line
\* 272), "no_client" (the Exception of line 238, which reaches line 272 too)
\* or "AttributeError" (caught at line 217)
Outcome(made, how) ==
  /\ ops' = ops \cup made
  /\ last' = [last EXCEPT !.native = @ \cup made,
                          !.result = IF how = "none" THEN @ ELSE how]

ManagerInit ==
  /\ pc = "ctor"
  /\ ResetManager
  /\ life' = "opening"
  /\ live' = live \cup {i}
  /\ last' = Call("__init__")
  /\ tally' = [tally EXCEPT !.attempted = @ + 1]
  /\ pc' = "init_env"
  /\ UNCHANGED <<fetchVars, machineVars, globalVars, counters, loopVars, handshake, ops,
                 writes, unlockCalls, ua, acquired, released, cleanups, ret,
                 arg, nCalls>>

SetEnv ==
  /\ pc = "init_env"
  /\ env' = i
  /\ pc' = "get_path"
  /\ UNCHANGED <<fetchVars, machineVars, cached_dll_path, cached_steam_path, dllDirectory,
                 mgrVars, initLocals, counters, loopVars, handshake, history,
                 ret, arg, nCalls, tally>>

\* _get_steam_install_path: the cached path, else the registry and the common
\* paths; it raises when none of them has an installation
GetSteamInstallPath ==
  /\ pc = "get_path"
  /\ IF cached_steam_path \/ registry
     THEN cached_steam_path' = TRUE /\ pc' = "try_cached" /\ Outcome({}, "none")
     ELSE cached_steam_path' = FALSE /\ pc' = "init_except"
          /\ Outcome({}, "failed")
  /\ UNCHANGED <<fetchVars, machineVars, env, cached_dll_path, dllDirectory, mgrVars,
                 initLocals, counters, loopVars, handshake, life, live, writes,
                 unlockCalls, ua, acquired, released, cleanups, ret, arg,
                 nCalls, tally>>

\* the open without lines 87-104: the scan is always made
TryCachedIgnoresCache ==
  /\ pc = "try_cached"
  /\ pc' = "scan" /\ scanPos' = 1
  /\ UNCHANGED <<fetchVars, machineVars, globalVars, mgrVars, dll_path, tried,
                 counters, loopVars, handshake, history, ret, arg, nCalls,
                 tally>>

\* a failed load that leaves the cached path as it is
CacheKept(c) == c
\* line 104: _cached_dll_path = None after a failed load from it
CacheReset(c) == NoPath

\* lines 87-104: the load from the cached path
TryCached ==
  /\ pc = "try_cached"
  /\ IF cached_dll_path = NoPath
     THEN /\ pc' = "scan" /\ scanPos' = 1
          /\ UNCHANGED <<cached_dll_path, dllDirectory, steamclient, dll_path,
                         ops, last>>
     ELSE /\ dll_path' = cached_dll_path
          /\ dllDirectory' = SearchDir(cached_dll_path)
          /\ Native("LoadLibrary")
          /\ \E loaded \in BOOLEAN :
               IF loaded
               THEN /\ steamclient' = TRUE /\ pc' = "backend"
                    /\ UNCHANGED <<cached_dll_path, scanPos>>
               ELSE /\ cached_dll_path' = CacheReset(cached_dll_path)
                    /\ pc' = "scan" /\ scanPos' = 1
                    /\ UNCHANGED steamclient
  /\ UNCHANGED <<fetchVars, machineVars, env, cached_steam_path, steam_client,
                 steam_pipe, steam_user, user_stats, user_stats_received, api,
                 vtable, tried, counters, loopVars, handshake, life, live,
                 writes, unlockCalls, ua, acquired, released, cleanups, ret,
                 arg, nCalls, tally>>

\* lines 106-191: one iteration of the loop over dll_paths, or its end
ScanStep ==
  /\ pc = "scan"
  /\ IF scanPos > Len(dll_paths)
     THEN /\ pc' = "init_except"
          /\ Outcome({}, "failed")
          /\ UNCHANGED <<cached_dll_path, dllDirectory, steamclient, dll_path,
                         scanPos, tried>>
     ELSE LET p == dll_paths[scanPos] IN
          /\ dll_path' = p
          /\ IF p \notin files
             THEN /\ scanPos' = scanPos + 1 /\ pc' = "scan"
                  /\ UNCHANGED <<cached_dll_path, dllDirectory, steamclient,
                                 ops, last, tried>>
             ELSE /\ dllDirectory' = SearchDir(p)
                  /\ tried' = Append(tried, p)
                  /\ Native("LoadLibrary")
                  /\ \E loaded \in BOOLEAN :
                       IF loaded
                       THEN /\ steamclient' = TRUE
                            /\ cached_dll_path' = p
                            /\ pc' = "backend"
                            /\ UNCHANGED scanPos
                       ELSE /\ scanPos' = scanPos + 1 /\ pc' = "scan"
                            /\ UNCHANGED <<cached_dll_path, steamclient>>
  /\ UNCHANGED <<fetchVars, machineVars, env, cached_steam_path, steam_client, steam_pipe,
                 steam_user, user_stats, user_stats_received, api, vtable,
                 counters, loopVars, handshake, life, live, writes, unlockCalls,
                 ua, acquired, released, cleanups, ret, arg, nCalls, tally>>

\* line 194: which approach the loaded path selects
BackendSkipsClient(p) == IF IsFlatPath(p) THEN "flat_init" ELSE "vt_pipe"
BackendOf(p) == IF IsFlatPath(p) THEN "flat_init" ELSE "vt_create"

SelectBackend ==
  /\ pc = "backend"
  /\ pc' = BackendOf(dll_path)
  /\ UNCHANGED <<fetchVars, machineVars, globalVars, mgrVars, initLocals, counters,
                 loopVars, handshake, history, ret, arg, nCalls, tally>>

\* lines 199-203: SteamAPI_InitSafe
FlatInit ==
  /\ pc = "flat_init"
  /\ \E o \in {"missing", "false", "true", "raise"} :
       /\ Outcome(IF o = "missing" THEN {} ELSE {"SteamAPI_InitSafe"},
                  CASE o = "missing" -> "AttributeError"
                    [] o = "true"    -> "none"
                    [] OTHER         -> "failed")
       /\ acquired' = IF o = "true" THEN acquired \cup {"api"} ELSE acquired
       /\ pc' = CASE o = "missing" -> "vt_create"
                  [] o = "true"    -> "flat_userstats"
                  [] OTHER         -> "init_except"
  /\ UNCHANGED <<fetchVars, machineVars, globalVars, mgrVars, initLocals, counters,
                 loopVars, handshake, life, live, writes, unlockCalls, ua,
                 released, cleanups, ret, arg, nCalls, tally>>

\* lines 205-211: SteamAPI_SteamUserStats_v013
FlatUserStats ==
  /\ pc = "flat_userstats"
  /\ \E o \in {"missing", "null", "pointer", "raise"} :
       /\ Outcome(IF o = "missing" THEN {} ELSE {"SteamAPI_SteamUserStats"},
                  CASE o = "missing" -> "AttributeError"
                    [] o = "pointer" -> "none"
                    [] OTHER         -> "failed")
       /\ user_stats' = (o = "pointer")
       /\ pc' = CASE o = "missing" -> "vt_create"
                  [] o = "pointer" -> "flat_setup"
                  [] OTHER         -> "init_except"
  /\ UNCHANGED <<fetchVars, machineVars, globalVars, steamclient, steam_client, steam_pipe,
                 steam_user, user_stats_received, api, vtable, initLocals,
                 counters, loopVars, handshake, life, live, writes, unlockCalls,
                 ua, acquired, released, cleanups, ret, arg, nCalls, tally>>

\* _setup_steam_api_functions: getattr(..., None) of each flat export
FlatSetup ==
  /\ pc = "flat_setup"
  /\ api' \in ExportSets
  /\ pc' = "ctor_ok"
  /\ UNCHANGED <<fetchVars, machineVars, globalVars, steamclient, steam_client, steam_pipe,
                 steam_user, user_stats, user_stats_received, vtable,
                 initLocals, counters, loopVars, handshake, history, ret, arg,
                 nCalls, tally>>

\* the client approach without lines 232-235: SteamClient017 is never requested
VtCreateWithout017 ==
  /\ pc = "vt_create"
  /\ \E o \in {"missing", "pointer", "null", "raise"} :
       /\ Outcome(IF o = "missing" THEN {} ELSE {"CreateInterface"},
                  CASE o = "pointer" -> "none"
                    [] o = "null"    -> "no_client"
                    [] OTHER         -> "failed")
       /\ steam_client' = (o = "pointer")
       /\ pc' = IF o = "pointer" THEN "vt_vtable" ELSE "init_except"
  /\ UNCHANGED <<fetchVars, machineVars, globalVars, steamclient, steam_pipe,
                 steam_user, user_stats, user_stats_received, api, vtable,
                 initLocals, counters, loopVars, handshake, life, live, writes,
                 unlockCalls, ua, acquired, released, cleanups, ret, arg,
                 nCalls, tally>>

\* lines 223-231: CreateInterface is looked up and called for SteamClient018
VtCreate ==
  /\ pc = "vt_create"
  /\ \E o \in {"missing", "pointer", "null", "raise"} :
       /\ Outcome(IF o = "missing" THEN {} ELSE {"CreateInterface"},
                  IF o \in {"pointer", "null"} THEN "none" ELSE "failed")
       /\ steam_client' = (o = "pointer")
       /\ pc' = CASE o = "pointer" -> "vt_vtable"
                  [] o = "null"    -> "vt_create017"
                  [] OTHER         -> "init_except"
  /\ UNCHANGED <<fetchVars, machineVars, globalVars, steamclient, steam_pipe,
                 steam_user, user_stats, user_stats_received, api, vtable,
                 initLocals, counters, loopVars, handshake, life, live, writes,
                 unlockCalls, ua, acquired, released, cleanups, ret, arg,
                 nCalls, tally>>

\* lines 232-238: SteamClient018 was null, CreateInterface is called for
\* SteamClient017
VtCreate017 ==
  /\ pc = "vt_create017"
  /\ \E o \in {"pointer", "null", "raise"} :
       /\ Outcome({"CreateInterface"},
                  CASE o = "pointer" -> "none"
                    [] o = "null"    -> "no_client"
                    [] OTHER         -> "failed")
       /\ steam_client' = (o = "pointer")
       /\ pc' = IF o = "pointer" THEN "vt_vtable" ELSE "init_except"
  /\ UNCHANGED <<fetchVars, machineVars, globalVars, steamclient, steam_pipe,
                 steam_user, user_stats, user_stats_received, api, vtable,
                 initLocals, counters, loopVars, handshake, life, live, writes,
                 unlockCalls, ua, acquired, released, cleanups, ret, arg,
                 nCalls, tally>>

\* line 243: _setup_steam_client_vtable
VtClientVtable ==
  /\ pc = "vt_vtable"
  /\ \E o \in {"bound", "raise"} :
       /\ Outcome({}, IF o = "bound" THEN "none" ELSE "failed")
       /\ vtable' = IF o = "bound" THEN vtable \cup {"client"} ELSE vtable
       /\ pc' = IF o = "bound" THEN "vt_pipe" ELSE "init_except"
  /\ UNCHANGED <<fetchVars, machineVars, globalVars, steamclient, steam_client,
                 steam_pipe, steam_user, user_stats, user_stats_received, api,
                 initLocals, counters, loopVars, handshake, life, live, writes,
                 unlockCalls, ua, acquired, released, cleanups, ret, arg,
                 nCalls, tally>>

\* lines 245-249: CreateSteamPipe
VtPipe ==
  /\ pc = "vt_pipe"
  /\ \E o \in {"zero", "handle", "raise"} :
       /\ Outcome({"CreateSteamPipe"}, IF o = "handle" THEN "none" ELSE "failed")
       /\ steam_pipe' = (o = "handle")
       /\ acquired' = IF o = "handle" THEN acquired \cup {"pipe"} ELSE acquired
       /\ pc' = IF o = "handle" THEN "vt_user" ELSE "init_except"
  /\ UNCHANGED <<fetchVars, machineVars, globalVars, steamclient, steam_client, steam_user,
                 user_stats, user_stats_received, api, vtable, initLocals,
                 counters, loopVars, handshake, life, live, writes, unlockCalls,
                 ua, released, cleanups, ret, arg, nCalls, tally>>

\* lines 251-255: ConnectToGlobalUser
VtUser ==
  /\ pc = "vt_user"
  /\ \E o \in {"zero", "handle", "raise"} :
       /\ Outcome({"ConnectToGlobalUser"},
                  IF o = "handle" THEN "none" ELSE "failed")
       /\ steam_user' = (o = "handle")
       /\ pc' = IF o = "handle" THEN "vt_stats" ELSE "init_except"
  /\ UNCHANGED <<fetchVars, machineVars, globalVars, steamclient, steam_client, steam_pipe,
                 user_stats, user_stats_received, api, vtable, initLocals,
                 counters, loopVars, handshake, life, live, writes, unlockCalls,
                 ua, acquired, released, cleanups, ret, arg, nCalls, tally>>

\* lines 259-260: open goes on only with a non-null user-stats interface
UserStatsUnchecked(o) == o # "raise"
UserStatsOk(o) == o = "pointer"

\* lines 257-265: GetISteamUserStats and _setup_user_stats_interface
VtStats ==
  /\ pc = "vt_stats"
  /\ \E o \in {"null", "pointer", "raise"} :
       /\ Outcome({"GetISteamUserStats"},
                  IF UserStatsOk(o) THEN "none" ELSE "failed")
       /\ user_stats' = (o = "pointer")
       /\ vtable' = IF UserStatsOk(o) THEN vtable \cup {"userstats"} ELSE vtable
       /\ pc' = IF UserStatsOk(o) THEN "ctor_ok" ELSE "init_except"
  /\ UNCHANGED <<fetchVars, machineVars, globalVars, steamclient, steam_client, steam_pipe,
                 steam_user, user_stats_received, api, initLocals, counters,
                 loopVars, handshake, life, live, writes, unlockCalls, ua,
                 acquired, released, cleanups, ret, arg, nCalls, tally>>

-----------------------------------------------------------------------------
(* cleanup(): sr and rr say whether the native shutdown and the native     *)
(* pipe release raise when called.  An exception leaves the try block, so  *)
(* the statements after the raising call are not executed.                 *)

\* line 561: "except Exception" catches whatever the native calls raise
CleanupPropagates == FALSE
CleanupSwallows == TRUE

cleanup(sr, rr) ==
  LET shut   == "shutdown" \in api
      rel    == ~(shut /\ sr) /\ steam_pipe /\ steam_client /\ "client" \in vtable
      toEnv  == ~(shut /\ sr) /\ ~(rel /\ rr)
      issued == (IF shut THEN {"SteamAPI_Shutdown"} ELSE {})
                  \cup (IF rel THEN {"BReleaseSteamPipe"} ELSE {})
  IN /\ ops' = ops \cup issued
     /\ last' = [Call("cleanup") EXCEPT
                   !.native = issued,
                   !.result = IF toEnv \/ CleanupSwallows THEN "returned"
                              ELSE "raised"]
     /\ tally' = [tally EXCEPT !.slept = 0]
     /\ released' = released \cup (IF shut THEN {"api"} ELSE {})
                             \cup (IF rel THEN {"pipe"} ELSE {})
     /\ env' = IF toEnv THEN 0 ELSE env
     /\ life' = "closed"
     /\ live' = live \ {i}
     /\ cleanups' = cleanups + 1

\* the except block without its self.cleanup()
InitExceptWithoutCleanup ==
  /\ pc = "init_except"
  /\ pc' = "ctor_raised"
  /\ UNCHANGED <<fetchVars, machineVars, globalVars, mgrVars, initLocals, counters,
                 loopVars, handshake, history, ret, arg, nCalls, tally>>

\* lines 272-274: the except block of _initialize_steam
InitExcept ==
  /\ pc = "init_except"
  /\ \E sr \in BOOLEAN, rr \in BOOLEAN : cleanup(sr, rr)
  /\ pc' = "ctor_raised"
  /\ UNCHANGED <<fetchVars, machineVars, cached_dll_path, cached_steam_path, dllDirectory,
                 mgrVars, initLocals, counters, loopVars, handshake, writes,
                 unlockCalls, ua, acquired, ret, arg, nCalls>>

-----------------------------------------------------------------------------
(* request_user_stats: the request, then the wait *)

\* iterations of "while time.time() < timeout" from t ms after the request,
\* each taking the 50 ms sleep
\* a loop that polls once more after the deadline
PumpPastDeadline(t) == (TimeoutMs \div PollMs) + 1 - (t \div PollMs)
\* one RunCallbacks call instead of the loop
PumpOnce(t) == IF t < TimeoutMs THEN 1 ELSE 0
RECURSIVE PumpCount(_)
PumpCount(t) == IF t < TimeoutMs THEN 1 + PumpCount(t + PollMs) ELSE 0

RequestStats ==
  /\ pc = "rus"
  /\ IF "request" \in api \/ "userstats" \in vtable
     THEN \E o \in {"invalid", "valid", "raise"} :
            /\ ops' = ops \cup {"RequestUserStats"}
            /\ last' = [Call("request_user_stats") EXCEPT
                          !.native = {"RequestUserStats"},
                          !.result = IF o = "valid" THEN "none" ELSE "false"]
            /\ requested' = (o = "valid")
            /\ pc' = IF o = "valid" THEN "rus_wait" ELSE "rus_ret"
            /\ ret' = FALSE
            /\ UNCHANGED user_stats_received
     ELSE /\ user_stats_received' = TRUE
          /\ ret' = TRUE
          /\ pc' = "rus_ret"
          /\ last' = [Call("request_user_stats") EXCEPT !.result = "true"]
          /\ UNCHANGED <<ops, requested>>
  /\ UNCHANGED <<fetchVars, machineVars, globalVars, steamclient, steam_client, steam_pipe,
                 steam_user, user_stats, api, vtable, initLocals, counters,
                 loopVars, statsArrived, waited, pumps, life, live, writes,
                 unlockCalls, ua, acquired, released, cleanups, arg, nCalls, tally>>

WaitStats ==
  /\ pc = "rus_wait"
  /\ IF "request" \in api /\ "run_callbacks" \in api
     THEN \E o \in {"return", "raise"} :
            /\ ops' = ops \cup {"RunCallbacks"}
            /\ last' = [last EXCEPT !.native = @ \cup {"RunCallbacks"},
                                    !.result = BoolStr(o = "return")]
            /\ IF o = "return"
               THEN /\ pumps' = PumpCount(0)
                    /\ waited' = PumpCount(0) * PollMs
                    /\ statsArrived' = (readyAfter <= pumps')
                    /\ user_stats_received' = TRUE
                    /\ ret' = TRUE
               ELSE /\ pumps' = 1 /\ waited' = 0
                    /\ ret' = FALSE
                    /\ UNCHANGED <<statsArrived, user_stats_received>>
     ELSE /\ pumps' = 0 /\ waited' = SettleMs
          /\ statsArrived' = (readyAfter * PollMs <= SettleMs)
          /\ user_stats_received' = TRUE
          /\ ret' = TRUE
          /\ last' = [last EXCEPT !.result = "true"]
          /\ UNCHANGED ops
  /\ pc' = "rus_ret"
  /\ UNCHANGED <<fetchVars, machineVars, globalVars, steamclient, steam_client, steam_pipe,
                 steam_user, user_stats, api, vtable, initLocals, counters,
                 loopVars, requested, life, live, writes, unlockCalls, ua,
                 acquired, released, cleanups, arg, nCalls, tally>>

-----------------------------------------------------------------------------
(* set_achievement, store_stats, unlock_achievement *)

set_achievement(a, unlocked) ==
  LET flat     == "set" \in api
      bound    == IF flat THEN unlocked \/ "clear" \in api
                  ELSE "userstats" \in vtable
      op       == IF unlocked THEN "SetAchievement" ELSE "ClearAchievement"
  IN IF bound
     THEN \E o \in {"true", "false", "raise"} :
            /\ ops' = ops \cup {op}
            /\ writes' = Append(writes, [op |-> op, ach |-> a])
            /\ ret' = (o = "true")
            /\ last' = [Call("set_achievement") EXCEPT
                          !.native = {op}, !.result = BoolStr(o = "true")]
     ELSE /\ ret' = FALSE
          /\ last' = [Call("set_achievement") EXCEPT !.result = "false"]
          /\ UNCHANGED <<ops, writes>>

store_stats ==
  IF "store" \in api \/ "userstats" \in vtable
  THEN \E o \in {"true", "false", "raise"} :
         /\ ops' = ops \cup {"StoreStats"}
         /\ ret' = (o = "true")
         /\ last' = [Call("store_stats") EXCEPT
                       !.native = {"StoreStats"}, !.result = BoolStr(o = "true")]
  ELSE /\ ret' = FALSE
       /\ last' = [Call("store_stats") EXCEPT !.result = "false"]
       /\ UNCHANGED ops

\* line 532: whether unlock_achievement goes on to store_stats
StoresAlways(setResult) == TRUE
StoresAfterSet(setResult) == setResult

\* an unlock_achievement that passes unlocked=False
UnlockedFalse == FALSE
\* line 532: the unlocked argument that unlock_achievement passes
UnlockedTrue == TRUE

\* line 532: the set_achievement call of unlock_achievement
UnlockSet ==
  /\ pc = "ua_set"
  /\ set_achievement(arg, UnlockedTrue)
  /\ ua' = [ach |-> arg, set |-> BoolStr(ret'), store |-> "none"]
  /\ pc' = IF StoresAfterSet(ret') THEN "ua_store" ELSE "ua_ret"
  /\ UNCHANGED <<fetchVars, machineVars, globalVars, mgrVars, initLocals, counters,
                 loopVars, handshake, life, live, unlockCalls, acquired,
                 released, cleanups, arg, nCalls, tally>>

\* line 533: the store_stats call of unlock_achievement
UnlockStore ==
  /\ pc = "ua_store"
  /\ store_stats
  /\ ua' = [ua EXCEPT !.store = BoolStr(ret')]
  /\ tally' = [tally EXCEPT !.applied = IF ret' THEN @ + 1 ELSE @]
  /\ pc' = "ua_ret"
  /\ UNCHANGED <<fetchVars, machineVars, globalVars, mgrVars, initLocals, counters,
                 loopVars, handshake, life, live, writes, unlockCalls, acquired,
                 released, cleanups, arg, nCalls>>

\* the steps of the constructor
OpenStep ==
  \/ ManagerInit \/ SetEnv \/ GetSteamInstallPath \/ TryCached \/ ScanStep
  \/ SelectBackend \/ FlatInit \/ FlatUserStats \/ FlatSetup
  \/ VtCreate \/ VtCreate017 \/ VtClientVtable \/ VtPipe \/ VtUser \/ VtStats
  \/ InitExcept

ManagerStep ==
  \/ OpenStep
  \/ RequestStats \/ WaitStats \/ UnlockSet \/ UnlockStore

-----------------------------------------------------------------------------
(* process_all_games.  The inventory is read game by game: NextGame draws  *)
(* the achievements of game i when the loop reaches it.                    *)

NextGame ==
  /\ pc = "loop" /\ i < nGames
  /\ i' = i + 1
  /\ achievements' \in AchLists
  /\ pc' = "filter"
  /\ UNCHANGED <<fetchVars, machineVars, globalVars, mgrVars, initLocals, counters, k,
                 manager, handshake, history, ret, arg, nCalls, tally>>

\* lines 670-678: the loop is over, the summary is printed
Summary ==
  /\ pc = "loop" /\ i = nGames
  /\ tally' = [tally EXCEPT !.reported =
                  SummaryLines(successful_games, failed_games,
                               total_achievements_unlocked)]
  /\ pc' = "done"
  /\ UNCHANGED <<fetchVars, machineVars, globalVars, mgrVars, initLocals, counters,
                 loopVars, handshake, history, ret, arg, nCalls>>

\* lines 599-620: continue, for a game with nothing to unlock
SkipGame ==
  /\ pc = "filter"
  /\ unlockable_achievements(achievements) = <<>>
  /\ tally' = [tally EXCEPT !.skipped = @ + 1]
  /\ pc' = "loop"
  /\ UNCHANGED <<fetchVars, machineVars, globalVars, mgrVars, initLocals, counters,
                 loopVars, handshake, history, ret, arg, nCalls>>

\* lines 622-631: manager = None, then the constructor is entered
StartGame ==
  /\ pc = "filter"
  /\ unlockable_achievements(achievements) # <<>>
  /\ manager' = FALSE
  /\ pc' = "ctor"
  /\ UNCHANGED <<fetchVars, machineVars, globalVars, mgrVars, initLocals, counters, i,
                 achievements, k, handshake, history, ret, arg, nCalls, tally>>

\* line 631: the constructor returned, manager is bound; line 634 is next
CtorReturned ==
  /\ pc = "ctor_ok"
  /\ manager' = TRUE
  /\ pc' = "rus"
  /\ UNCHANGED <<fetchVars, machineVars, globalVars, mgrVars, initLocals, counters, i,
                 achievements, k, handshake, history, ret, arg, nCalls, tally>>

\* line 658: failed_games += 1
FailedAfterRaiseUncounted(f) == f
FailedAfterRaise(f) == f + 1

\* the exception of the constructor leaves process_all_games
CtorRaisedEscapes ==
  /\ pc = "ctor_raised"
  /\ pc' = "escaped"
  /\ UNCHANGED <<fetchVars, machineVars, globalVars, mgrVars, initLocals, counters,
                 loopVars, handshake, history, ret, arg, nCalls, tally>>

\* lines 656-658: the constructor raised
CtorRaised ==
  /\ pc = "ctor_raised"
  /\ failed_games' = FailedAfterRaise(failed_games)
  /\ pc' = "finally"
  /\ UNCHANGED <<fetchVars, machineVars, globalVars, mgrVars, initLocals,
                 total_achievements_unlocked, successful_games, loopVars,
                 handshake, history, ret, arg, nCalls, tally>>

\* lines 634-635 and 652-654: the result of request_user_stats
\* line 634: the write loop is entered when request_user_stats returned true
WritesWhateverRequest(result) == TRUE
WritesAfterRequest(result) == result

AfterRequest ==
  /\ pc = "rus_ret"
  /\ IF WritesAfterRequest(ret)
     THEN /\ k' = 1 /\ pc' = "write" /\ UNCHANGED failed_games
     ELSE /\ failed_games' = failed_games + 1 /\ pc' = "finally" /\ UNCHANGED k
  /\ UNCHANGED <<fetchVars, machineVars, globalVars, mgrVars, initLocals,
                 total_achievements_unlocked, successful_games, i, achievements,
                 manager, handshake, history, ret, arg, nCalls, tally>>

\* a game counted as successful only when one of its writes was applied
SuccessfulOnlyIfUnlocked(s, unlocked_this_game) ==
  IF unlocked_this_game > 0 THEN s + 1 ELSE s
\* line 650: successful_games += 1, whatever achievements_unlocked_this_game
\* (lines 636 and 642) has reached
SuccessfulAfterWrites(s, unlocked_this_game) == s + 1

\* lines 638-641 and 647-650: the next unlock_achievement call, or the end of
\* the loop over unlockable_achievements
WriteLoop ==
  /\ pc = "write"
  /\ LET todo == unlockable_achievements(achievements) IN
     IF k <= Len(todo)
     THEN /\ arg' = todo[k]
          /\ unlockCalls' = Append(unlockCalls, todo[k])
          /\ pc' = "ua_set"
          /\ UNCHANGED successful_games
     ELSE /\ successful_games' =
               SuccessfulAfterWrites(successful_games,
                 total_achievements_unlocked - tally.before.unlocked)
          /\ pc' = "finally"
          /\ UNCHANGED <<arg, unlockCalls>>
  /\ UNCHANGED <<fetchVars, machineVars, globalVars, mgrVars, initLocals,
                 total_achievements_unlocked, failed_games, loopVars, handshake,
                 life, live, ops, writes, last, ua, acquired, released,
                 cleanups, ret, nCalls, tally>>

\* lines 641-643: the result of unlock_achievement
\* line 641: the call is counted when unlock_achievement returned true
CountsEveryCall(result) == TRUE
CountsWhenTrue(result) == result

\* line 638: the for loop goes on to the next achievement, whatever the result
StopsOnFailure(pos, result, n) == IF result THEN pos + 1 ELSE n + 1
NextAchievement(pos, result, n) == pos + 1

AfterUnlock ==
  /\ pc = "ua_ret"
  /\ total_achievements_unlocked' =
       IF CountsWhenTrue(ret) THEN total_achievements_unlocked + 1
       ELSE total_achievements_unlocked
  /\ k' = NextAchievement(k, ret, Len(unlockable_achievements(achievements)))
  /\ pc' = "write"
  /\ UNCHANGED <<fetchVars, machineVars, globalVars, mgrVars, initLocals, successful_games,
                 failed_games, i, achievements, manager, handshake, history,
                 ret, arg, nCalls, tally>>

\* line 662: whether the finally block calls cleanup()
FinallyCleansAfterSuccess == manager /\ user_stats_received
\* a finally block that closes whatever the constructor did
FinallyCleansAlways == manager \/ life = "closed"
FinallyCleans == manager

\* lines 660-664
FinallyBlock ==
  /\ IF FinallyCleans
     THEN \E sr \in BOOLEAN, rr \in BOOLEAN : cleanup(sr, rr)
     ELSE UNCHANGED <<ops, last, released, env, life, live, cleanups, tally>>
  /\ UNCHANGED <<fetchVars, machineVars, cached_dll_path, cached_steam_path, dllDirectory,
                 mgrVars, initLocals, counters, loopVars, handshake, writes,
                 unlockCalls, ua, acquired, ret, arg, nCalls>>

Finally ==
  /\ pc = "finally"
  /\ FinallyBlock
  /\ pc' = "cooldown"

\* lines 666-668: time.sleep(1).  Nothing reads this game's manager object or
\* the iteration's locals again (lines 595-597 and 627 rebind them first), so
\* their record ends here.
NoSleepAfterGame(t) == t
SleepAfterGame(t) == IF t < 0 THEN t ELSE t + CooldownMs

Cooldown ==
  /\ pc = "cooldown"
  /\ pc' = "loop"
  /\ ResetManager /\ ResetHistory
  /\ ret' = FALSE /\ arg' = 0 /\ k' = 0
  /\ manager' = FALSE /\ achievements' = <<>>
  /\ tally' = [tally EXCEPT
                 !.slept = SleepAfterGame(@),
                 !.before = [successful |-> successful_games,
                             failed |-> failed_games,
                             unlocked |-> total_achievements_unlocked]]
  /\ UNCHANGED <<fetchVars, machineVars, globalVars, counters, i, live, nCalls>>

Next ==
  \/ NextGame \/ Summary \/ SkipGame \/ StartGame \/ CtorReturned \/ CtorRaised
  \/ AfterRequest \/ WriteLoop \/ AfterUnlock \/ Finally \/ Cooldown
  \/ ManagerStep

Spec == Init /\ [][Next]_vars

\* every step of process_all_games returns: the program is eventually scheduled
LiveSpec == Spec /\ WF_vars(Next)

-----------------------------------------------------------------------------
(* process_all_games with a KeyboardInterrupt during request_user_stats.   *)
(* KeyboardInterrupt is not an Exception: neither line 455 nor line 656    *)
(* catches it, the finally block runs, and it leaves process_all_games for *)
(* the handler of __main__ (lines 727-728).                                *)

Interrupt ==
  /\ pc \in {"rus", "rus_wait"}
  /\ pc' = "int_finally"
  /\ UNCHANGED <<fetchVars, machineVars, globalVars, mgrVars, initLocals, counters,
                 loopVars, handshake, history, ret, arg, nCalls, tally>>

IntFinally ==
  /\ pc = "int_finally"
  /\ FinallyBlock
  /\ pc' = "interrupted"

IntNext == Next \/ Interrupt \/ IntFinally

IntSpec == Init /\ [][IntNext]_vars

-----------------------------------------------------------------------------
(* A caller of the manager's public methods: it constructs one manager and *)
(* then calls request_user_stats, set_achievement, store_stats,            *)
(* unlock_achievement and cleanup in any order, MaxCalls times at most.    *)

ApiInit ==
  /\ InitCommon /\ FetchIdle
  /\ files \in SUBSET BatchFiles
  /\ frozen = FALSE
  /\ readyAfter \in ReadyPolls
  /\ nGames = 1
  /\ i = 1
  /\ pc = "new"

ApiConstruct ==
  /\ pc = "new"
  /\ pc' = "ctor"
  /\ UNCHANGED <<fetchVars, machineVars, globalVars, mgrVars, initLocals, counters,
                 loopVars, handshake, history, ret, arg, nCalls, tally>>

ApiCtorReturned ==
  /\ pc = "ctor_ok"
  /\ manager' = TRUE
  /\ pc' = "idle"
  /\ UNCHANGED <<fetchVars, machineVars, globalVars, mgrVars, initLocals, counters, i,
                 achievements, k, handshake, history, ret, arg, nCalls, tally>>

ApiCtorRaised ==
  /\ pc = "ctor_raised"
  /\ pc' = "gone"
  /\ UNCHANGED <<fetchVars, machineVars, globalVars, mgrVars, initLocals, counters,
                 loopVars, handshake, history, ret, arg, nCalls, tally>>

ApiIdle == pc = "idle" /\ manager /\ nCalls < MaxCalls /\ nCalls' = nCalls + 1

ApiRequest ==
  /\ ApiIdle
  /\ pc' = "rus"
  /\ UNCHANGED <<fetchVars, machineVars, globalVars, mgrVars, initLocals, counters,
                 loopVars, handshake, history, ret, arg, tally>>

ApiSet ==
  /\ ApiIdle
  /\ \E u \in BOOLEAN : set_achievement(1, u)
  /\ pc' = "idle"
  /\ UNCHANGED <<fetchVars, machineVars, globalVars, mgrVars, initLocals, counters,
                 loopVars, handshake, life, live, unlockCalls, ua, acquired,
                 released, cleanups, arg, tally>>

ApiStore ==
  /\ ApiIdle
  /\ store_stats
  /\ pc' = "idle"
  /\ UNCHANGED <<fetchVars, machineVars, globalVars, mgrVars, initLocals, counters,
                 loopVars, handshake, life, live, writes, unlockCalls, ua,
                 acquired, released, cleanups, arg, tally>>

ApiUnlock ==
  /\ ApiIdle
  /\ arg' = 1
  /\ unlockCalls' = Append(unlockCalls, 1)
  /\ pc' = "ua_set"
  /\ UNCHANGED <<fetchVars, machineVars, globalVars, mgrVars, initLocals, counters,
                 loopVars, handshake, life, live, ops, writes, last, ua,
                 acquired, released, cleanups, ret, tally>>

ApiCleanup ==
  /\ ApiIdle
  /\ \E sr \in BOOLEAN, rr \in BOOLEAN : cleanup(sr, rr)
  /\ pc' = "idle"
  /\ UNCHANGED <<fetchVars, machineVars, cached_dll_path, cached_steam_path, dllDirectory,
                 mgrVars, initLocals, counters, loopVars, handshake, writes,
                 unlockCalls, ua, acquired, ret, arg>>

ApiReturn ==
  /\ pc \in {"rus_ret", "ua_ret"}
  /\ pc' = "idle"
  /\ UNCHANGED <<fetchVars, machineVars, globalVars, mgrVars, initLocals, counters,
                 loopVars, handshake, history, ret, arg, nCalls, tally>>

ApiNext ==
  \/ ApiConstruct \/ ApiCtorReturned \/ ApiCtorRaised \/ ApiRequest \/ ApiSet
  \/ ApiStore \/ ApiUnlock \/ ApiCleanup \/ ApiReturn
  \/ ManagerStep

ApiSpec == ApiInit /\ [][ApiNext]_vars

\* every native call and every sleep of the manager returns
ApiLiveSpec == ApiSpec /\ WF_vars(ApiNext)

-----------------------------------------------------------------------------
(* A caller that constructs managers one after another, as lines 627-664   *)
(* do, and closes each one that was constructed before the next.  The      *)
(* machine may have any of OpenFiles and may run a frozen build.           *)

OpenInit ==
  /\ InitCommon /\ FetchIdle
  /\ files \in SUBSET OpenFiles
  /\ frozen \in BOOLEAN
  /\ readyAfter = NeverReady
  /\ nGames = MaxOpens
  /\ i = 0
  /\ pc = "next"

OpenNew ==
  /\ pc = "next" /\ i < nGames
  /\ i' = i + 1
  /\ ResetManager /\ ResetHistory
  /\ manager' = FALSE
  /\ pc' = "ctor"
  /\ UNCHANGED <<fetchVars, machineVars, globalVars, counters, achievements, k,
                 live, ret, arg, nCalls, tally>>

OpenReturned ==
  /\ pc = "ctor_ok"
  /\ manager' = TRUE
  /\ pc' = "close"
  /\ UNCHANGED <<fetchVars, machineVars, globalVars, mgrVars, initLocals,
                 counters, i, achievements, k, handshake, history, ret, arg,
                 nCalls, tally>>

OpenRaised ==
  /\ pc = "ctor_raised"
  /\ pc' = "next"
  /\ UNCHANGED <<fetchVars, machineVars, globalVars, mgrVars, initLocals,
                 counters, loopVars, handshake, history, ret, arg, nCalls,
                 tally>>

OpenClose ==
  /\ pc = "close"
  /\ \E sr \in BOOLEAN, rr \in BOOLEAN : cleanup(sr, rr)
  /\ pc' = "next"
  /\ UNCHANGED <<fetchVars, machineVars, cached_dll_path, cached_steam_path,
                 dllDirectory, mgrVars, initLocals, counters, loopVars,
                 handshake, writes, unlockCalls, ua, acquired, ret, arg,
                 nCalls>>

OpenNext == OpenNew \/ OpenReturned \/ OpenRaised \/ OpenClose \/ OpenStep

OpenSpec == OpenInit /\ [][OpenNext]_vars

-----------------------------------------------------------------------------
(* main.py: the schema files that SteamSchemaReader reads.  A file is      *)
(* missing, or it exists and cannot be read, or it holds data; the data    *)
(* are modelled as a sequence of 32-bit words.                             *)

MissingFile    == [state |-> "missing", data |-> <<>>]
UnreadableFile == [state |-> "unreadable", data |-> <<>>]
DataFile(d)    == [state |-> "data", data |-> d]

\* the word 01 00 00 00 that _read_kv_file looks for, a word that reads as a
\* permission with both protection bits set, and a word that is neither
Words == {Marker, 3, 5}
DataSeqs == UNION {[1..n -> Words] : n \in 0..MaxData}
SchemaFiles == {MissingFile, UnreadableFile} \cup {DataFile(d) : d \in DataSeqs}

\* a dict, as a function on its keys
EmptyDict == <<>>
Put(d, key, v) == [x \in DOMAIN d \cup {key} |-> IF x = key THEN v ELSE d[x]]

\* lines 160-170: the first word from pos on, the last word of the data
\* excepted (pos + i + 4 < len(data)), that reads as 0, 1, 2 or 3; 0 if none
FirstPermission(data, pos) ==
  LET cand == {j \in pos..(Len(data) - 1) : data[j] \in 0..3}
  IN IF cand = {} THEN 0
     ELSE data[CHOOSE j \in cand : \A m \in cand : j <= m]

\* lines 150-177: the loop over pos.  achievement_id is set to "" at line
\* 157 and not assigned again before it is tested at line 172.
RECURSIVE ScanKV(_, _, _)
ScanKV(data, pos, achs) ==
  IF pos > Len(data) - TailLen THEN achs
  ELSE LET achievement_id == ""
           permission == FirstPermission(data, pos)
       IN ScanKV(data, pos + 1,
                 IF data[pos] = Marker /\ achievement_id # ""
                 THEN Put(achs, achievement_id, [permission |-> permission])
                 ELSE achs)

\* lines 138-182: an exception of open or read is caught at line 180 and
\* answered with {}
_read_kv_file(f) ==
  IF f.state = "unreadable" THEN EmptyDict ELSE ScanKV(f.data, 1, EmptyDict)

\* lines 193-194 and 210-211: (permission & 3) != 0
ProtectedBits(permission) == (permission % 4) # 0

\* a probe that takes a missing schema file for a protected achievement
AssumeProtected == "true"
\* lines 201-203: the schema file does not exist
AssumeNotProtected == "false"

\* lines 184-218: the branch taken, the value returned and the cache left.
\* _read_kv_file returns in every case, so the handler of lines 215-218 has
\* nothing to catch.
is_achievement_protected(app_id, achievement_id) ==
  IF ~steam_path
  THEN [branch |-> "no_path", result |-> "false", cache |-> schema_cache]
  ELSE IF /\ app_id \in DOMAIN schema_cache
          /\ achievement_id \in DOMAIN schema_cache[app_id]
  THEN [branch |-> "cached",
        result |-> BoolStr(ProtectedBits(
                     schema_cache[app_id][achievement_id].permission)),
        cache |-> schema_cache]
  ELSE IF schema_file[app_id].state = "missing"
  THEN [branch |-> "no_file", result |-> AssumeNotProtected,
        cache |-> schema_cache]
  ELSE LET schema == _read_kv_file(schema_file[app_id])
           cache  == Put(schema_cache, app_id, schema)
       IN IF achievement_id \in DOMAIN schema
          THEN [branch |-> "loaded",
                result |-> BoolStr(ProtectedBits(
                             schema[achievement_id].permission)),
                cache |-> cache]
          ELSE [branch |-> "absent", result |-> "false", cache |-> cache]

(* A caller of the schema reader: it constructs a SteamSchemaReader on a   *)
(* machine with any schema files and calls is_achievement_protected for    *)
(* any app and achievement, MaxCalls times at most.                        *)

Apps   == {1, 2}
AchIds == {"ACH_A", "ACH_B"}

ProbeInit ==
  /\ InitCommon /\ PoolIdle
  /\ files = {} /\ frozen = FALSE /\ registry = FALSE
  /\ readyAfter = NeverReady
  /\ nGames = 0 /\ i = 0 /\ pc = "reader"
  /\ steam_path = FALSE
  /\ schema_file \in [Apps -> SchemaFiles]
  /\ schema_cache = EmptyDict
  /\ probe = NoProbe

\* lines 103-136: __init__; _get_steam_path finds the Steam folder or not
NewSchemaReader ==
  /\ pc = "reader"
  /\ steam_path' \in BOOLEAN
  /\ schema_cache' = EmptyDict
  /\ pc' = "probe"
  /\ UNCHANGED <<fetchVars, files, frozen, registry, readyAfter, nGames,
                 response, schema_file, probe, globalVars, mgrVars,
                 initLocals, counters, loopVars, handshake, history, ret, arg,
                 nCalls, tally>>

\* a call of is_achievement_protected
Probe ==
  /\ pc = "probe" /\ nCalls < MaxCalls
  /\ nCalls' = nCalls + 1
  /\ \E app_id \in Apps, achievement_id \in AchIds :
       LET r == is_achievement_protected(app_id, achievement_id) IN
         /\ probe' = [app |-> app_id, ach |-> achievement_id,
                      branch |-> r.branch, result |-> r.result]
         /\ schema_cache' = r.cache
  /\ UNCHANGED <<fetchVars, files, frozen, registry, readyAfter, nGames,
                 response, steam_path, schema_file, globalVars, mgrVars,
                 initLocals, counters, loopVars, handshake, history, pc, ret,
                 arg, tally>>

ProbeNext == NewSchemaReader \/ Probe

ProbeSpec == ProbeInit /\ [][ProbeNext]_vars

-----------------------------------------------------------------------------
(* main.py: the inventory fetch.  Every owned game is submitted to the     *)
(* pool (lines 500-519); the pool has more threads than the model has      *)
(* games, so every call may run at once.  "with lock" is an acquire that   *)
(* waits for the lock and a release at the end of the block.               *)

\* the answers of get_player_achievements: the request failed, raised or
\* the game is not owned; the game has no achievements; all of them are
\* achieved; one of them is not
Responses ==
  {[success |-> FALSE, achieved |-> <<>>],
   [success |-> TRUE, achieved |-> <<>>],
   [success |-> TRUE, achieved |-> <<1>>],
   [success |-> TRUE, achieved |-> <<1, 0>>]}

\* line 502: the schema reader that the calls are given; the schema files
\* hold nothing, or data with a permission word after a marker
FetchReader ==
  /\ steam_path = TRUE
  /\ \E f \in {MissingFile, DataFile(<<Marker, 3>>)} :
       schema_file = [g \in DOMAIN wpc |-> f]
  /\ schema_cache = <<>>
  /\ probe = NoProbe

FetchInit ==
  /\ InitCommon
  /\ files = {} /\ frozen = FALSE /\ registry = FALSE
  /\ readyAfter = NeverReady
  /\ nGames = 0 /\ i = 0 /\ pc = "fetch"
  /\ lock = FALSE /\ games_with_achievements = <<>>
  /\ \E n \in 1..MaxFetch :
       /\ wpc = [g \in 1..n |-> "submitted"]
       /\ response \in [1..n -> Responses]
  /\ FetchReader
  /\ found = {} /\ mpc = "as_completed"
  /\ completed_count = 0 /\ last_percentage = -1
  /\ ckptLen = 0 /\ data_json = NoFile

\* "with lock:" entered and left
Acquire == ~lock /\ lock' = TRUE
Release == lock' = FALSE

\* lines 275-278: with lock: log_print("Processing game ...")
Announce(g) ==
  /\ wpc[g] = "submitted"
  /\ Acquire
  /\ wpc' = [wpc EXCEPT ![g] = "announcing"]
  /\ UNCHANGED <<games_with_achievements, found, mpc, completed_count,
                 last_percentage, ckptLen, data_json, batchVars>>

Announced(g) ==
  /\ wpc[g] = "announcing"
  /\ Release
  /\ wpc' = [wpc EXCEPT ![g] = "request"]
  /\ UNCHANGED <<games_with_achievements, found, mpc, completed_count,
                 last_percentage, ckptLen, data_json, batchVars>>

\* a fetch that keeps every game that has achievements
HasAchievements(r) == r.success /\ r.achieved # <<>>
\* lines 283-311: the request succeeded and an achievement has achieved == 0
has_locked_achievements(r) ==
  r.success /\ \E j \in 1..Len(r.achieved) : r.achieved[j] = 0

\* an entry marked protected when it is not achieved
ProtectedWhenLocked(achieved) == achieved = 0
\* line 305: "protected": False
ProtectedField(achieved) == FALSE

\* lines 287-313: the game's record, one entry for each achievement of the
\* answer
game_data(g) ==
  [appid |-> g,
   achievements |->
     [j \in 1..Len(response[g].achieved) |->
        [achieved |-> response[g].achieved[j],
         protected |-> ProtectedField(response[g].achieved[j])]]]

\* lines 281-312: the request and the look at its achievements
GetAchievements(g) ==
  /\ wpc[g] = "request"
  /\ found' = IF has_locked_achievements(response[g]) THEN found \cup {g}
              ELSE found
  /\ wpc' = [wpc EXCEPT ![g] = "report"]
  /\ UNCHANGED <<lock, games_with_achievements, mpc, completed_count,
                 last_percentage, ckptLen, data_json, batchVars>>

\* lines 317-319, 324, 329, 332, 339: with lock: the append of a game with a
\* locked achievement, and the log line
Report(g) ==
  /\ wpc[g] = "report"
  /\ Acquire
  /\ games_with_achievements' =
       IF g \in found THEN Append(games_with_achievements, game_data(g))
       ELSE games_with_achievements
  /\ wpc' = [wpc EXCEPT ![g] = "reporting"]
  /\ UNCHANGED <<found, mpc, completed_count, last_percentage, ckptLen,
                 data_json, batchVars>>

\* the end of the with block, the sleep of line 336 and the return
Reported(g) ==
  /\ wpc[g] = "reporting"
  /\ Release
  /\ wpc' = [wpc EXCEPT ![g] = "done"]
  /\ UNCHANGED <<games_with_achievements, found, mpc, completed_count,
                 last_percentage, ckptLen, data_json, batchVars>>

process_single_game(g) ==
  Announce(g) \/ Announced(g) \/ GetAchievements(g) \/ Report(g) \/ Reported(g)

Done == {g \in DOMAIN wpc : wpc[g] = "done"}

\* lines 525-526: as_completed yields a finished call
AsCompleted ==
  /\ mpc = "as_completed"
  /\ completed_count < Cardinality(Done)
  /\ completed_count' = completed_count + 1
  /\ mpc' = "progress"
  /\ UNCHANGED <<lock, games_with_achievements, wpc, found, last_percentage,
                 ckptLen, data_json, batchVars>>

\* line 534
current_percentage == (completed_count * 100) \div Len(wpc)

\* lines 535-558: whether a progress line is printed, under the lock
Progress ==
  /\ mpc = "progress"
  /\ IF current_percentage # last_percentage
        /\ current_percentage % ProgressPct = 0
     THEN Acquire /\ mpc' = "printing_pct"
     ELSE IF completed_count % ProgressEvery = 0
             \/ completed_count = Len(wpc)
     THEN Acquire /\ mpc' = "printing"
     ELSE mpc' = "save_check" /\ UNCHANGED lock
  /\ UNCHANGED <<games_with_achievements, wpc, found, completed_count,
                 last_percentage, ckptLen, data_json, batchVars>>

\* the end of the with block; line 548 after the first kind of line
Printed ==
  /\ mpc \in {"printing_pct", "printing"}
  /\ Release
  /\ last_percentage' = IF mpc = "printing_pct" THEN current_percentage
                         ELSE last_percentage
  /\ mpc' = "save_check"
  /\ UNCHANGED <<games_with_achievements, wpc, found, completed_count,
                 ckptLen, data_json, batchVars>>

\* the position after the body of the loop: the next finished call, or the
\* end of the loop and of the pool's with block
AfterBody == IF completed_count = Len(wpc) THEN "final" ELSE "as_completed"

\* line 561: the checkpoint is due
SaveCheck ==
  /\ mpc = "save_check"
  /\ mpc' = IF completed_count % CheckpointEvery = 0 THEN "ckpt" ELSE AfterBody
  /\ UNCHANGED <<lock, games_with_achievements, wpc, found, completed_count,
                 last_percentage, ckptLen, data_json, batchVars>>

\* the checkpoint without its "with lock"
CheckpointUnlocked ==
  /\ mpc = "ckpt"
  /\ mpc' = "ckpt_len"
  /\ UNCHANGED <<lock, games_with_achievements, wpc, found, completed_count,
                 last_percentage, ckptLen, data_json, batchVars>>

\* lines 562-565: with lock: the checkpoint begins
Checkpoint ==
  /\ mpc = "ckpt"
  /\ Acquire
  /\ mpc' = "ckpt_len"
  /\ UNCHANGED <<games_with_achievements, wpc, found, completed_count,
                 last_percentage, ckptLen, data_json, batchVars>>

\* lines 570-576 and 612-616: the dict is built: len(games_with_achievements)
\* is evaluated
SaveLen ==
  /\ mpc \in {"ckpt_len", "final"}
  /\ mpc = "final" => Done = DOMAIN wpc
  /\ ckptLen' = Len(games_with_achievements)
  /\ mpc' = IF mpc = "final" THEN "final_dump" ELSE "ckpt_dump"
  /\ UNCHANGED <<lock, games_with_achievements, wpc, found, completed_count,
                 last_percentage, data_json, batchVars>>

\* lines 568-580 and 610-620: json.dump writes the count and the list as it is
SaveDump ==
  /\ mpc \in {"ckpt_dump", "final_dump"}
  /\ data_json' = [total |-> ckptLen, games |-> games_with_achievements]
  /\ mpc' = IF mpc = "final_dump" THEN "saved" ELSE "ckpt_done"
  /\ UNCHANGED <<lock, games_with_achievements, wpc, found, completed_count,
                 last_percentage, ckptLen, batchVars>>

\* line 581: the end of the checkpoint's with block
CheckpointDone ==
  /\ mpc = "ckpt_done"
  /\ Release
  /\ mpc' = AfterBody
  /\ UNCHANGED <<games_with_achievements, wpc, found, completed_count,
                 last_percentage, ckptLen, data_json, batchVars>>

FetchNext ==
  \/ \E g \in DOMAIN wpc : process_single_game(g)
  \/ AsCompleted \/ Progress \/ Printed \/ SaveCheck \/ Checkpoint
  \/ SaveLen \/ SaveDump \/ CheckpointDone

FetchSpec == FetchInit /\ [][FetchNext]_vars

-----------------------------------------------------------------------------
(* Properties.  Eligibility is restated here from the inventory contract   *)
(* (achievedFlag == 0 and not protectedFlag), independently of the code's  *)
(* list comprehensions.                                                    *)

Range(s) == {s[j] : j \in 1..Len(s)}
Eligible(achs) ==
  {j \in 1..Len(achs) : achs[j].achieved = 0 /\ ~achs[j].protected}

\* C1: process_all_games never has two sessions open at once: at most one
\* session is between the start of its open and the return of its cleanup(),
\* and a constructor is entered only when no session is open.
C1_OneSessionAtATime ==
  /\ Cardinality(live) <= 1
  /\ pc = "ctor" => live = {}

\* C1 witness: the session of the second game is open after the first game's
\* session was opened and closed.
C1_SecondSessionOpen ==
  /\ i = 2 /\ live = {2} /\ user_stats
  /\ successful_games + failed_games = 1

\* C2: set_achievement or store_stats called while user_stats_received is
\* false returns failure and makes no native set, clear or store call.
C2_WriteNeedsStatsReady ==
  (last.method \in {"set_achievement", "store_stats"} /\ ~last.rcv)
    => (last.native = {} /\ last.result = "false")

\* C3: when the runtime never has the stats after a valid request, the
\* handshake returns failure (user_stats_received stays false) and no set or
\* clear call is made for the target.
C3_TimedOutWhenNeverReady ==
  (requested /\ ~statsArrived)
    => /\ writes = <<>>
       /\ pc = "rus_ret" => (~ret /\ ~user_stats_received)

\* C4: whenever no session is open, the SteamAppId environment marker is unset.
C4_EnvUnsetWhenNoSession == live = {} => env = 0

\* C5: a cleanup() on a session that is already Closed makes no native
\* shutdown or pipe-release call.
C5_SecondCleanupIsNoOp ==
  (last.method = "cleanup" /\ last.pre = "Closed") => last.native = {}

\* C6: after a failed open, every native resource the open had acquired (the
\* initialised flat API, the pipe) was released by the cleanup it triggered.
C6_FailedOpenReleasesAll == pc = "ctor_raised" => acquired \subseteq released

\* C7: when the library cannot be located (no candidate exists), the batch
\* stops: after the target that failed, no session is attempted again.
C7_LibraryNotFoundStopsBatch ==
  (registry /\ files = {} /\ failed_games >= 1) => pc # "ctor"

\* C8 as claimed: every unlock_achievement call makes a store_stats call after
\* its set call, whether or not the set call succeeded.
C8_StoreAlwaysFollowsSet == pc = "ua_ret" => ua.store # "none"

\* C8 as amended: unlock_achievement calls store_stats after set_achievement
\* if and only if set_achievement returned true; when it returned false no
\* store_stats call is made and unlock_achievement returns false.
C8_StoreIffSetSucceeded ==
  pc = "ua_ret" =>
    /\ ua.set \in {"true", "false"}
    /\ (ua.store # "none") <=> (ua.set = "true")
    /\ ua.set = "false" => (~ret /\ last.method = "set_achievement")
    /\ ua.set = "true" => (last.method = "store_stats" /\ ret = (ua.store = "true"))

\* C8 witness: an unlock_achievement call whose set call failed has returned
\* without a store_stats call.
C8_SetFailedNoStore ==
  /\ pc = "ua_ret" /\ ua.set = "false" /\ ua.store = "none"
  /\ "SetAchievement" \in last.native

\* C9: for a game with no eligible achievement, process_all_games constructs
\* no session and makes no library load and no native call.
C9_NoSessionForIneligible ==
  (i >= 1 /\ Eligible(achievements) = {})
    => /\ pc \in {"filter", "loop", "done"}
       /\ life = "none" /\ ops = {} /\ cleanups = 0 /\ i \notin live

\* C9 witness: the second game, whose only locked achievement is protected,
\* was skipped after the first game was processed.
C9_ProtectedGameSkipped ==
  /\ pc = "loop" /\ i = 2 /\ successful_games = 1
  /\ Eligible(achievements) = {}
  /\ \E j \in 1..Len(achievements) :
       achievements[j].achieved = 0 /\ achievements[j].protected

\* C10: process_all_games calls unlock_achievement, and the session makes a
\* native set call, only for eligible achievements, never twice for one, and
\* never a clear call; once the handshake succeeded and the write loop is
\* over, every eligible achievement has had exactly one unlock_achievement call.
C10_WritesExactlyEligible ==
  /\ Range(unlockCalls) \subseteq Eligible(achievements)
  /\ Cardinality(Range(unlockCalls)) = Len(unlockCalls)
  /\ \A w \in Range(writes) :
       w.op = "SetAchievement" /\ w.ach \in Eligible(achievements)
  /\ Len(writes) <= Len(unlockCalls)
  /\ (pc \in {"finally", "cooldown"} /\ user_stats_received)
       => /\ Range(unlockCalls) = Eligible(achievements)
          /\ ("set" \in api \/ "userstats" \in vtable)
               => Len(writes) = Len(unlockCalls)

\* C10 witness: the write loop of a game with an achieved, a protected or a
\* second eligible achievement is over, with its one or two eligible
\* achievements written.
C10_MixedGameWritten ==
  /\ pc = "finally" /\ user_stats_received
  /\ Len(achievements) = 2
  /\ Len(writes) = Cardinality(Eligible(achievements))
  /\ \E j \in 1..2 : j \notin Eligible(achievements)

-----------------------------------------------------------------------------
(* Open failures, the batch's accounting, cleanup and the cooldown *)

\* the eligible positions of a game's list, in the list's order
EligibleSeq(achs) ==
  SelectSeq([j \in 1..Len(achs) |-> j], LAMBDA j : j \in Eligible(achs))

WriteOps == {"SetAchievement", "ClearAchievement", "StoreStats"}
HandshakeOps == {"RequestUserStats", "RunCallbacks"}

\* the current game is at its finally block or its cooldown: its outcome is counted
Counted == pc \in {"finally", "cooldown"}
OpenFailed == Counted /\ ~manager
HandshakeFailed == Counted /\ manager /\ ~user_stats_received
HandshakeSucceeded == Counted /\ manager /\ user_stats_received

\* C11 as claimed: once any step of open has failed, by a null or zero return
\* or by any exception, no further step of open runs: the next thing is the
\* except block with its cleanup().
C11_EveryFailureAborts ==
  (last.method = "__init__" /\ last.result # "none") => pc = "init_except"

\* C11 as amended: a step of open that returns null, zero or false, or raises
\* an exception other than the AttributeError of a missing flat export, aborts
\* the remaining steps, runs cleanup() once and makes the constructor raise,
\* so that no manager is bound; each step runs only after the steps before it
\* succeeded.  A missing flat export abandons the flat approach and open goes
\* on with CreateInterface on the same library.
C11_FailureAbortsExceptFallThrough ==
  /\ (last.method = "__init__" /\ last.result \in {"failed", "no_client"})
       => pc = "init_except"
  /\ (last.method = "__init__" /\ last.result = "AttributeError")
       => (IsFlatPath(dll_path) /\ api = {} /\ pc # "init_except")
  /\ pc = "ctor_raised"
       => (last.method = "cleanup" /\ cleanups = 1 /\ life = "closed" /\ ~manager)
  /\ pc = "ctor_ok" => (steamclient /\ user_stats /\ cleanups = 0)
  /\ "SteamAPI_SteamUserStats" \in ops => "api" \in acquired
  /\ "CreateInterface" \in ops => steamclient
  /\ "CreateSteamPipe" \in ops => steam_client
  /\ "ConnectToGlobalUser" \in ops => steam_pipe
  /\ "GetISteamUserStats" \in ops => steam_user

\* C11 witness: the pipe could not be created: the open stopped before
\* ConnectToGlobalUser, cleanup() ran and the constructor raised.
C11_PipeFailedOpenAborted ==
  /\ pc = "ctor_raised" /\ steam_client /\ ~steam_pipe
  /\ "CreateSteamPipe" \in ops /\ "ConnectToGlobalUser" \notin ops
  /\ cleanups = 1

\* C12: a game whose constructor raised is counted in failed_games exactly
\* once and in nothing else, no request_user_stats, unlock_achievement or
\* native handshake or write call is made for it, and the loop goes on.
C12_FailedOpenCountedOnce ==
  /\ pc = "ctor_raised" =>
       /\ failed_games = tally.before.failed
       /\ successful_games = tally.before.successful
  /\ OpenFailed =>
       /\ failed_games = tally.before.failed + 1
       /\ successful_games = tally.before.successful
       /\ total_achievements_unlocked = tally.before.unlocked
       /\ ~requested /\ unlockCalls = <<>> /\ writes = <<>>
       /\ ops \cap (WriteOps \cup HandshakeOps) = {}

\* C12 witness: no library exists; the first game's open failed and the loop
\* went on to the second game, whose open failed too.
C12_SecondOpenFailedToo ==
  /\ OpenFailed /\ i = 2 /\ failed_games = 2 /\ files = {}

\* C13: whatever the targets' open, handshake and writes return or raise,
\* every game of the inventory is eventually skipped or attempted and the
\* summary is eventually printed.
C13_BatchReachesSummary ==
  <>(pc = "done" /\ i = nGames /\ tally.attempted + tally.skipped = nGames)

\* C13 witness: the summary is printed after one game failed and one succeeded.
C13_SummaryAfterFailure ==
  /\ pc = "done" /\ failed_games = 1 /\ successful_games = 1

\* C14: when request_user_stats returned false, no unlock_achievement call and
\* no native set, clear or store call is made for the game, the game is
\* counted as failed, and its session is closed by the finally block.
C14_FailedHandshakeSkipsWrites ==
  /\ (pc = "rus_ret" /\ ~ret) => (unlockCalls = <<>> /\ writes = <<>>)
  /\ HandshakeFailed =>
       /\ unlockCalls = <<>> /\ writes = <<>> /\ ops \cap WriteOps = {}
       /\ failed_games = tally.before.failed + 1
       /\ successful_games = tally.before.successful
       /\ total_achievements_unlocked = tally.before.unlocked
  /\ (HandshakeFailed /\ pc = "cooldown")
       => (life = "closed" /\ cleanups = 1 /\ i \notin live
           /\ last.method = "cleanup")

\* C14 witness: the request was made and failed, and the session was closed.
C14_RequestFailedSessionClosed ==
  /\ HandshakeFailed /\ pc = "cooldown" /\ life = "closed"
  /\ "RequestUserStats" \in ops

\* C15: whatever the earlier unlock_achievement calls returned, the calls made
\* so far are the eligible achievements in order, one per iteration, and when
\* the write loop is over every eligible achievement has had its call.
C15_LaterAchievementsStillAttempted ==
  /\ pc \in {"write", "ua_set", "ua_store", "ua_ret"} =>
       /\ Len(unlockCalls) = IF pc = "write" THEN k - 1 ELSE k
       /\ Len(unlockCalls) <= Len(EligibleSeq(achievements))
       /\ unlockCalls = SubSeq(EligibleSeq(achievements), 1, Len(unlockCalls))
  /\ HandshakeSucceeded => unlockCalls = EligibleSeq(achievements)

\* C15 witness: of two eligible achievements the first was rejected and the
\* second was still attempted, and applied.
C15_SecondWrittenAfterRejection ==
  /\ pc = "finally" /\ Len(unlockCalls) = 2
  /\ ua.ach = unlockCalls[2] /\ ua.store = "true"
  /\ total_achievements_unlocked = tally.before.unlocked + 1

\* C16: unlock_achievement returns true only when its set call and its store
\* call both returned true, and total_achievements_unlocked counts exactly the
\* calls that returned true.
C16_AppliedOnlyIfSetAndStore ==
  /\ pc = "ua_ret" => (ret <=> (ua.set = "true" /\ ua.store = "true"))
  /\ total_achievements_unlocked
       = tally.applied - (IF pc = "ua_ret" /\ ret THEN 1 ELSE 0)

\* C16 witness: the set call succeeded, the store call failed, and
\* unlock_achievement returned false.
C16_StoreFailedNotApplied ==
  /\ pc = "ua_ret" /\ ua.set = "true" /\ ua.store = "false" /\ ~ret
  /\ "StoreStats" \in last.native

\* C17: cleanup() returns normally and leaves the session closed, in whatever
\* state it is called and whatever its native calls do.
C17_CleanupNeverRaises ==
  last.method = "cleanup" =>
    /\ last.result = "returned"
    /\ life = "closed"

\* C17 witness: cleanup() was called on a session with stats received, a
\* native call of it raised (the environment marker is still set), and it
\* returned.
C17_CleanupReturnedAfterNativeRaise ==
  /\ last.method = "cleanup" /\ last.pre = "StatsReady"
  /\ last.native # {} /\ env # 0 /\ pc = "idle"

\* C18: after an interrupt during the handshake of a game that follows
\* completed games, cleanup() was called for the session in progress and the
\* counters of the completed games are reported in the summary.
C18_InterruptKeepsOutcomes ==
  (pc = "interrupted" /\ successful_games + failed_games >= 1) =>
    /\ cleanups = 1 /\ life = "closed"
    /\ tally.reported.processed = successful_games + failed_games

\* C19 as claimed: the summary accounts every game once as successful, failed
\* or skipped and reports the number of skipped games.
C19_SummaryReportsSkipped ==
  (pc = "done" /\ tally.skipped >= 1) =>
    /\ tally.reported.processed = tally.attempted
    /\ "skipped" \in DOMAIN tally.reported
    /\ tally.reported.skipped = tally.skipped

\* C19 as amended: every game is skipped or attempted, exactly once;
\* successful_games + failed_games is the number of sessions attempted; the
\* total is the number of unlock_achievement calls that returned true; the
\* summary prints processed, successful, failed and total with these values
\* and prints no count of skipped games.
C19_SummaryExact ==
  /\ tally.attempted + tally.skipped
       = i - (IF pc \in {"filter", "ctor"} THEN 1 ELSE 0)
  /\ successful_games + failed_games
       = tally.attempted
           - (IF pc \in {"loop", "filter", "ctor", "finally", "cooldown", "done"}
              THEN 0 ELSE 1)
  /\ pc = "done" =>
       /\ i = nGames
       /\ tally.reported = SummaryLines(successful_games, failed_games,
                                        total_achievements_unlocked)
       /\ tally.reported.processed = tally.attempted
       /\ tally.reported.processed = nGames - tally.skipped
       /\ tally.reported.unlocked = tally.applied
       /\ DOMAIN tally.reported
            = {"processed", "successful", "failed", "unlocked"}

\* C19 witness: two games, the second with one achieved achievement; one
\* session ran and applied one change, the second game was skipped, and the
\* summary reads processed 1, successful 1, failed 0, total 1.
C19_OneSessionOneSkipped ==
  /\ pc = "done" /\ nGames = 2
  /\ achievements = <<[achieved |-> 1, protected |-> FALSE]>>
  /\ tally.attempted = 1 /\ tally.skipped = 1
  /\ tally.reported = SummaryLines(1, 0, 1)

\* C20: a constructor is entered either before any session existed or after
\* the last session's cleanup() returned and the 1 s sleep that follows it.
C20_CooldownBetweenSessions ==
  pc = "ctor" =>
    /\ live = {}
    /\ tally.attempted = 0 => tally.slept = -1
    /\ tally.attempted > 0 => tally.slept = CooldownMs

\* C20 witness: the second session is about to open, after the first one was
\* closed and the sleep was taken.
C20_SecondOpenAfterSleep ==
  /\ pc = "ctor" /\ tally.attempted = 1 /\ tally.slept = CooldownMs

-----------------------------------------------------------------------------
(* The open: its order, the library location, the backends *)

OpenPcs == {"init_env", "get_path", "try_cached", "scan", "backend",
            "flat_init", "flat_userstats", "flat_setup", "vt_create",
            "vt_create017", "vt_vtable", "vt_pipe", "vt_user", "vt_stats"}

\* the step of the open contract a position of the constructor belongs to:
\* 1 environment marker, 2 locate and load, 3 select the backend, 4 bind the
\* client interface (the flat SteamAPI_InitSafe stands for 4 to 6), 5 create
\* the pipe, 6 connect to the user, 7 bind the user-stats interface, 8 done
StepRank(p) ==
  CASE p = "init_env" -> 1
    [] p \in {"get_path", "try_cached", "scan"} -> 2
    [] p = "backend" -> 3
    [] p \in {"flat_init", "vt_create", "vt_create017", "vt_vtable"} -> 4
    [] p = "vt_pipe" -> 5
    [] p = "vt_user" -> 6
    [] p \in {"flat_userstats", "flat_setup", "vt_stats"} -> 7
    [] OTHER -> 8

InOpen == pc \in OpenPcs /\ pc' \in OpenPcs \cup {"ctor_ok"}

\* C21 as claimed: the steps of open are taken in the listed order: no step
\* of open is followed by a step that comes earlier in the list.
C21_StepsInListedOrder ==
  [][InOpen => StepRank(pc') >= StepRank(pc)]_vars

\* C21 as amended: open goes through environment marker, locate and load,
\* backend selection, client interface, pipe, user, user-stats interface in
\* this order, one step at a time, each position reached only with the
\* result of the step before it; on the flat backend SteamAPI_InitSafe takes
\* the place of client interface, pipe and user; and when the flat
\* user-stats export is missing open goes back to the client interface step
\* with CreateInterface.
C21_OrderExceptFallThrough ==
  /\ [][InOpen =>
          \/ pc = "flat_userstats" /\ pc' = "vt_create"
               /\ last'.result = "AttributeError"
          \/ pc = "flat_init" /\ pc' = "flat_userstats"
          \/ StepRank(pc') \in {StepRank(pc), StepRank(pc) + 1}]_vars
  /\ [](/\ (pc \in OpenPcs /\ StepRank(pc) >= 2) => env = i
        /\ (pc \in OpenPcs /\ StepRank(pc) >= 3)
             => (steamclient /\ dll_path # NoPath /\ "LoadLibrary" \in ops)
        /\ pc \in {"flat_init", "flat_userstats", "flat_setup"}
             => IsFlatPath(dll_path)
        /\ pc \in {"flat_userstats", "flat_setup"} => "api" \in acquired
        /\ pc \in {"vt_vtable", "vt_pipe", "vt_user", "vt_stats"} => steam_client
        /\ pc \in {"vt_pipe", "vt_user", "vt_stats"} => "client" \in vtable
        /\ pc \in {"vt_user", "vt_stats"} => steam_pipe
        /\ pc = "vt_stats" => steam_user
        /\ pc \in {"flat_setup", "ctor_ok"} => user_stats)

\* C21 witness: an open on the client library went through all seven steps.
C21_VtableOpenCompleted ==
  /\ pc = "ctor_ok" /\ env = i /\ steamclient /\ ~IsFlatPath(dll_path)
  /\ steam_client /\ steam_pipe /\ steam_user /\ user_stats
  /\ {"LoadLibrary", "CreateInterface", "CreateSteamPipe",
      "ConnectToGlobalUser", "GetISteamUserStats"} \subseteq ops

\* C22: a RequestUserStats call is made, a request is outstanding, or
\* user_stats_received is true, only on a manager whose constructor returned
\* with the library loaded and a non-null user-stats interface.
C22_StatsOnlyAfterInterfaceBound ==
  ("RequestUserStats" \in ops \/ requested \/ user_stats_received
     \/ pc \in {"rus", "rus_wait", "rus_ret"})
    => (manager /\ steamclient /\ user_stats
        /\ "LoadLibrary" \in ops /\ (api # {} \/ "userstats" \in vtable))

\* C22 witness: the stats were requested and received on a session opened
\* through the client library.
C22_StatsReadyOnBoundSession ==
  /\ pc = "idle" /\ user_stats_received /\ requested
  /\ "RequestUserStats" \in ops /\ "GetISteamUserStats" \in ops
  /\ user_stats /\ manager

\* the current request_user_stats call made a valid request and its poll
\* loop ran to the deadline without RunCallbacks raising
PumpReturned ==
  /\ pc = "rus_ret" /\ last.method = "request_user_stats" /\ requested
  /\ "RunCallbacks" \in last.native /\ waited > 0

\* C23: against a Steam client that has the stats after N polls with
\* N * 50 ms < 3 s, a valid request followed by the poll loop makes at least N
\* polls, returns true and leaves user_stats_received true; a set_achievement
\* call made in that state reaches the native set or clear function.
C23_ReadyBackendReachesReady ==
  /\ (PumpReturned /\ readyAfter * PollMs < TimeoutMs)
       => /\ ret /\ user_stats_received
          /\ pumps >= readyAfter /\ statsArrived
          /\ SessionState = "StatsReady" \/ life = "closed"
  /\ (last.method = "set_achievement" /\ last.pre = "StatsReady"
        /\ ({"set", "clear"} \subseteq api \/ "userstats" \in vtable))
       => last.native # {}

\* C23 witness: the stats were there at the last poll before the deadline,
\* and request_user_stats returned true.
C23_ReadyAtLastPoll ==
  /\ PumpReturned /\ readyAfter = (TimeoutMs \div PollMs) - 1
  /\ ret /\ user_stats_received /\ statsArrived /\ life = "opening"

\* C24: a successful load leaves its path in the class-level cache, where it
\* stays until a load from it fails; an open that finds a cached path loads
\* from it before any candidate is looked at, and when that load succeeds it
\* goes on to the backend without a scan; the scan is made only when there
\* was no cached path or the load from it failed.
C24_CachedPathProbedFirst ==
  /\ [](/\ steamclient => (cached_dll_path = dll_path /\ dll_path # NoPath)
        /\ pc = "try_cached"
             => (scanPos = 0 /\ tried = <<>> /\ "LoadLibrary" \notin ops))
  /\ [][(pc = "try_cached" /\ cached_dll_path # NoPath) =>
          /\ dll_path' = cached_dll_path /\ "LoadLibrary" \in ops'
          /\ tried' = <<>>
          /\ steamclient' => (pc' = "backend" /\ scanPos' = 0
                               /\ cached_dll_path' = cached_dll_path)
          /\ ~steamclient' => (pc' = "scan" /\ cached_dll_path' = NoPath)]_vars
  /\ [][(cached_dll_path # NoPath /\ cached_dll_path' # cached_dll_path) =>
          (pc = "try_cached" /\ ~steamclient' /\ cached_dll_path' = NoPath)]_vars
  /\ [][(pc # "scan" /\ pc' = "scan") =>
          (pc = "try_cached" /\ cached_dll_path' = NoPath)]_vars

\* C24 witness: the second open loaded the library of the first open from the
\* cached path and made no scan.
C24_SecondOpenUsedCache ==
  /\ pc = "backend" /\ i = 2 /\ steamclient
  /\ scanPos = 0 /\ tried = <<>> /\ dll_path = cached_dll_path

\* the rank of a candidate's folder in the locator's contract
DirRank(d) ==
  CASE d = "cwd" -> 1
    [] d \in {"bundle", "exe"} -> 2
    [] d = "script" -> 3
    [] OTHER -> 4

\* the existing files that are candidates of this build
Candidates == files \cap Range(dll_paths)

\* C25: the scan passes the existing candidates to the loader in rank order,
\* goes on after each one that fails to load, and stops at the first that
\* loads: the library chosen by a scan exists, and every existing candidate
\* of a higher-ranked folder was tried before it and failed; the scan gives
\* up only when every existing candidate was tried.
C25_FirstLoadableCandidateWins ==
  /\ \A a, b \in 1..Len(tried) :
       a < b => (tried[a] # tried[b]
                 /\ DirRank(tried[a].dir) <= DirRank(tried[b].dir))
  /\ Range(tried) \subseteq Candidates
  /\ pc = "scan" => ~steamclient
  /\ (pc = "backend" /\ scanPos > 0) =>
       /\ steamclient /\ dll_path \in Candidates
       /\ tried # <<>> /\ dll_path = tried[Len(tried)]
       /\ \A q \in Candidates :
            DirRank(q.dir) < DirRank(dll_path.dir) => q \in Range(tried)
  /\ (pc = "init_except" /\ ~steamclient /\ scanPos > 0)
       => Range(tried) = Candidates

\* C25 witness: a library of the working directory exists and failed to load,
\* and the scan went on and chose the library of the installation directory.
C25_PassedOverFailedCandidate ==
  /\ pc = "backend" /\ scanPos > 0 /\ Len(tried) >= 2
  /\ tried[1].dir = "cwd" /\ dll_path.dir = "steam"

\* C26: when the flat initialization fails, because SteamAPI_InitSafe is
\* missing, returns false or raises, or because the flat user-stats export is
\* missing, the next step of open is the CreateInterface lookup of the vtable
\* approach.
C26_FlatFailureFallsBackToVtable ==
  [][((pc = "flat_init" /\ pc' # "flat_userstats")
        \/ (pc = "flat_userstats" /\ last'.result = "AttributeError"))
       => pc' = "vt_create"]_vars

\* the existing candidates whose path does not depend on the install lookup
LocalCandidates == {q \in Candidates : q.dir # "steam"}

\* C27: open fails before a library is loaded only when every existing
\* candidate was passed to the loader and failed, whatever the install-path
\* lookup returned.
C27_NotFoundOnlyWhenNoneLoads ==
  (pc = "init_except" /\ ~steamclient) => LocalCandidates \subseteq Range(tried)

\* C28: RunCallbacks is called at most 3000 / 50 = 60 times per handshake
\* and only on a backend that has it, the handshake waits 3 s at most, a
\* backend without RunCallbacks waits the 1.5 s settle delay and makes no
\* poll, and every request_user_stats call returns.
C28_HandshakeBounded ==
  /\ [](/\ pumps <= TimeoutMs \div PollMs
        /\ waited <= TimeoutMs
        /\ pumps > 0 => "run_callbacks" \in api
        /\ "RunCallbacks" \in ops => "run_callbacks" \in api
        /\ (pc = "rus_ret" /\ requested /\ "run_callbacks" \notin api)
             => (pumps = 0 /\ waited = SettleMs))
  /\ (pc = "rus") ~> (pc = "rus_ret")

\* C28 witness: a handshake polled until the deadline, 60 times, and returned.
C28_PolledUntilDeadline ==
  /\ pc = "rus_ret" /\ requested /\ "RunCallbacks" \in last.native
  /\ pumps = TimeoutMs \div PollMs /\ waited = TimeoutMs

\* C30: SteamClient017 is requested only after the request for SteamClient018
\* returned null; when either request returns a pointer open goes on with
\* that interface; and open fails for want of a client interface only after
\* the request for SteamClient017 returned null as well.
C30_NewestVersionFirst ==
  [][/\ (pc # "vt_create017" /\ pc' = "vt_create017")
          => (pc = "vt_create" /\ "CreateInterface" \in ops' /\ ~steam_client')
     /\ (pc \in {"vt_create", "vt_create017"} /\ steam_client')
          => pc' = "vt_vtable"
     /\ (pc # "vt_vtable" /\ pc' = "vt_vtable")
          => (pc \in {"vt_create", "vt_create017"} /\ steam_client')
     /\ (pc # "init_except" /\ pc' = "init_except"
          /\ last'.result = "no_client")
          => (pc = "vt_create017" /\ ~steam_client')]_vars

\* C30 witness: the request for SteamClient018 returned null and the request
\* for SteamClient017 is next.
C30_Fallback017Requested ==
  /\ pc = "vt_create017" /\ "CreateInterface" \in ops /\ ~steam_client
  /\ last.result # "no_client"

-----------------------------------------------------------------------------
(* The inventory fetch *)

InLock == {g \in DOMAIN wpc : wpc[g] \in {"announcing", "reporting"}}
\* the app ids of a list of game records
Appids(games) == {games[j].appid : j \in 1..Len(games)}
MainInLock ==
  mpc \in {"printing_pct", "printing", "ckpt_len", "ckpt_dump", "ckpt_done"}

\* C29: at most one thread is inside a "with lock" block; every append is
\* made inside one, and so is every checkpoint write, whose count and list
\* are those of one moment; every game found to have a locked achievement is
\* in the list exactly once when its call has appended, and all of them are
\* in the file saved at the end.
C29_AppendsAndCheckpointsUnderLock ==
  /\ Cardinality(InLock) + (IF MainInLock THEN 1 ELSE 0)
       = (IF lock THEN 1 ELSE 0)
  /\ mpc = "ckpt_dump" => ckptLen = Len(games_with_achievements)
  /\ data_json.total \in {-1, Len(data_json.games)}
  /\ \A a, b \in 1..Len(games_with_achievements) :
       a # b => games_with_achievements[a] # games_with_achievements[b]
  /\ Appids(games_with_achievements)
       = {g \in found : wpc[g] \in {"reporting", "done"}}
  /\ Range(data_json.games) \subseteq Range(games_with_achievements)
  /\ mpc = "saved" => Appids(data_json.games) = found

\* C29 witness: a checkpoint with a game in it was written while another
\* call, which has a game to append, waits for the lock.
C29_CheckpointWhileWorkerWaits ==
  /\ mpc = "ckpt_done" /\ data_json.total >= 1
  /\ \E g \in DOMAIN wpc : wpc[g] = "report" /\ g \in found

-----------------------------------------------------------------------------
\* the directory that holds the file p
ContainingDir(p) == [dir |-> p.dir, sub |-> p.sub]

\* a load of dll_path was attempted by the last step of the locator: from
\* the cached path (no scan position yet) or from the scan
LoadAttempted ==
  /\ dll_path # NoPath
  /\ \/ scanPos = 0
     \/ (tried # <<>> /\ tried[Len(tried)] = dll_path)

\* C31: whenever a load of a candidate was attempted, from the scan or from
\* the cached path, the library search path had been set to the directory
\* that contains that candidate, in whichever location the candidate lies.
C31_SearchPathIsContainingDir ==
  LoadAttempted => dllDirectory = ContainingDir(dll_path)

\* C33: request_user_stats returns true, and user_stats_received is true,
\* only on a session on which a native RequestUserStats call was made and
\* returned a valid result; a session with no request function bound never
\* has user_stats_received true.
C33_ReceivedOnlyAfterValidRequest ==
  /\ (last.method = "request_user_stats" /\ last.result = "true")
       => ("RequestUserStats" \in last.native /\ requested)
  /\ user_stats_received => "RequestUserStats" \in ops
  /\ ("request" \notin api /\ "userstats" \notin vtable)
       => ~user_stats_received

\* C34: in process_all_games cleanup() runs exactly once for each session
\* that was attempted: when open fails it has run inside the constructor, the
\* orchestrator holds no manager and the finally block does not run it again;
\* when open succeeded it has not run before the finally block, which runs it
\* once, whatever the handshake and the writes returned.
C34_CleanupOncePerSession ==
  /\ cleanups <= 1
  /\ pc = "ctor_raised" => (cleanups = 1 /\ ~manager)
  /\ pc = "finally" => cleanups = (IF manager THEN 0 ELSE 1)
  /\ pc = "cooldown" => (cleanups = 1 /\ last.method = "cleanup")
  /\ (manager /\ pc # "cooldown") => (cleanups = 0 /\ life = "opening")
  /\ pc \in {"loop", "filter", "done"} => cleanups = 0

\* C34 witness: the second game's open failed after the first game's session
\* had been closed by the finally block; the finally block of the second game
\* has run and cleanup() was called once for it, by the constructor.
C34_FailedOpenClosedOnce ==
  /\ pc = "cooldown" /\ i = 2 /\ ~manager /\ cleanups = 1
  /\ successful_games = 1 /\ failed_games = 1

\* C35: a game is counted in successful_games exactly when its constructor
\* returned and request_user_stats returned true, however many of its writes
\* were applied; every other attempted game is counted in failed_games; a
\* game is counted once, in one of the two, and only when its try block ends.
C35_SuccessfulIffHandshakeTrue ==
  LET ds == successful_games - tally.before.successful
      df == failed_games - tally.before.failed
  IN /\ Counted =>
          /\ ds \in {0, 1} /\ df = 1 - ds
          /\ ds = 1 <=> (manager /\ user_stats_received)
          /\ df = 1 <=> (OpenFailed \/ HandshakeFailed)
     /\ ~Counted => (ds = 0 /\ df = 0)

\* C35 witness: the session opened and request_user_stats returned true,
\* both writes of the game failed, and the game is counted as successful.
C35_SuccessfulWithNothingApplied ==
  /\ pc = "finally" /\ HandshakeSucceeded
  /\ Len(unlockCalls) = 2 /\ tally.applied = 0
  /\ total_achievements_unlocked = tally.before.unlocked
  /\ successful_games = tally.before.successful + 1

\* C36: process_all_games makes no native clear call: every native write of
\* a session is a set, and no achievement that the inventory lists as
\* achieved is passed to unlock_achievement or to a native write.
C36_NeverClears ==
  /\ "ClearAchievement" \notin ops
  /\ last.method = "set_achievement" => last.native \subseteq {"SetAchievement"}
  /\ \A j \in 1..Len(achievements) :
       achievements[j].achieved = 1 =>
         /\ j \notin Range(unlockCalls)
         /\ \A w \in Range(writes) : w.ach # j
  /\ \A n \in 1..Len(writes) : writes[n].op # "ClearAchievement"

\* C36 witness: the write loop of a game with one achieved and one locked
\* achievement is over; the locked one was set, the achieved one untouched.
C36_AchievedLeftAlone ==
  /\ pc = "finally" /\ Len(achievements) = 2 /\ Len(writes) = 1
  /\ writes[1].op = "SetAchievement"
  /\ achievements[writes[1].ach].achieved = 0
  /\ \E j \in 1..2 : achievements[j].achieved = 1

\* the games whose answer is a success with an achievement that has
\* achieved == 0
WithLocked ==
  {g \in DOMAIN response :
     response[g].success /\ 0 \in Range(response[g].achieved)}

\* C37: the games of the data.json saved at the end are determined by the
\* answers alone: they are the games whose request succeeded and that have
\* an achievement with achieved == 0, each of them once, whatever the order
\* in which the calls ran; the count saved with them is their number.
C37_FinalInventoryFixedByResponses ==
  mpc = "saved" =>
    /\ Appids(data_json.games) = WithLocked
    /\ Len(data_json.games) = Cardinality(WithLocked)
    /\ data_json.total = Cardinality(WithLocked)
    /\ data_json.games = games_with_achievements

\* C37 witness: three games were fetched; the second has all its
\* achievements achieved and is left out, the third was appended before the
\* first.
C37_SavedInCompletionOrder ==
  /\ mpc = "saved" /\ Len(wpc) = 3 /\ WithLocked = {1, 3}
  /\ response[2].success /\ response[2].achieved # <<>>
  /\ data_json.games[1].appid = 3 /\ data_json.games[2].appid = 1

\* the entries of the game records of a list have protected = FALSE, and the
\* batch's filter takes exactly their entries with achieved == 0
Unprotected(games) ==
  \A n \in 1..Len(games) :
    LET achs == games[n].achievements IN
      /\ \A j \in 1..Len(achs) : achs[j].protected = FALSE
      /\ unlockable_achievements(achs) = locked_achievements(achs)
      /\ Range(unlockable_achievements(achs))
           = {j \in 1..Len(achs) : achs[j].achieved = 0}
      /\ protected_achievements(achs) = <<>>

\* C38: every achievement entry that the fetch appends or saves has
\* protected == false, whatever the schema files hold; the schema reader is
\* not called, its cache stays empty; so for every saved game the batch's
\* eligible achievements are those with achieved == 0.
C38_FetchedEntriesUnprotected ==
  /\ Unprotected(games_with_achievements)
  /\ Unprotected(data_json.games)
  /\ schema_cache = <<>> /\ probe = NoProbe

\* C38 witness: the schema files hold data with a permission word, and a
\* game with a locked and an achieved achievement was saved at the end.
C38_SavedBesideSchemaData ==
  /\ mpc = "saved" /\ schema_file[1] = DataFile(<<Marker, 3>>)
  /\ Len(data_json.games) >= 1
  /\ Len(data_json.games[1].achievements) = 2

\* the last probe met one of the failures: the Steam path is unknown, the
\* schema file is missing or cannot be read, or the achievement is not in
\* what the file parses to
ProbeFailure ==
  /\ probe.result # "none"
  /\ \/ ~steam_path
     \/ schema_file[probe.app].state \in {"missing", "unreadable"}
     \/ probe.ach \notin DOMAIN _read_kv_file(schema_file[probe.app])

\* C32: is_achievement_protected returns, and returns false, whenever the
\* Steam path is unknown, the schema file is missing, reading it fails, or
\* the achievement is not in the parsed schema; no call ends by raising.
C32_ProbeDefaultsToNotProtected ==
  /\ probe.result \in {"none", "false", "true"}
  /\ ProbeFailure => probe.result = "false"
  /\ probe.branch \in {"no_path", "no_file", "absent"} => probe.result = "false"

\* C32 witness: the schema file of the probed app exists and cannot be
\* read; the probe returned false and left the app's empty schema in the cache.
C32_UnreadableSchemaNotProtected ==
  /\ probe.result = "false" /\ probe.branch = "absent"
  /\ steam_path /\ schema_file[probe.app].state = "unreadable"
  /\ probe.app \in DOMAIN schema_cache

\* C39: the cached path is non-empty only as the path of the most recent
\* successful load: every successful load leaves its path in the cache, and
\* the cache changes in two ways only, a scan's winning path being stored
\* and a failed load from the cached path emptying it; that failure is
\* followed by the scan from the first candidate in the same open; while a
\* scan runs, and after it ended with nothing loaded, the cache is empty.
C39_CacheIsLastSuccessfulLoad ==
  /\ []((pc = "scan" \/ (pc \in {"init_except", "ctor_raised"}
                           /\ scanPos > 0 /\ ~steamclient))
          => cached_dll_path = NoPath)
  /\ [][(steamclient' /\ ~steamclient)
          => (cached_dll_path' = dll_path' /\ dll_path' \in files)]_vars
  /\ [][cached_dll_path' # cached_dll_path =>
          \/ /\ pc = "scan" /\ steamclient' /\ ~steamclient
             /\ cached_dll_path' = dll_paths[scanPos]
          \/ /\ pc = "try_cached" /\ ~steamclient'
             /\ "LoadLibrary" \in ops' /\ cached_dll_path' = NoPath]_vars
  /\ [][(pc = "try_cached" /\ cached_dll_path # NoPath /\ ~steamclient')
          => (cached_dll_path' = NoPath /\ pc' = "scan" /\ scanPos' = 1
              /\ i' = i)]_vars

\* C39 witness: the second open found a cached path, the load from it
\* failed, the cache is empty and the scan is at its first candidate.
C39_FailedCachedLoadRescans ==
  /\ pc = "scan" /\ i = 2 /\ scanPos = 1 /\ tried = <<>>
  /\ "LoadLibrary" \in ops /\ dll_path # NoPath
  /\ cached_dll_path = NoPath
====
